---- MODULE Spec2Model ----
(***************************************************************************)
(* The packed Hilbert R-tree of the aabb crate: HilbertRTree (f64          *)
(* coordinates, src/src/hilbert_rtree.rs) and HilbertRTreeI32 (i32         *)
(* coordinates, src/src/hilbert_rtree_i32.rs).                             *)
(*                                                                         *)
(* One tree and one caller are modelled.  The byte buffer `data` is held   *)
(* as its two arrays: boxes (the box array that starts at HEADER_SIZE) and *)
(* indices (the u32 array that starts at HEADER_SIZE + total_nodes *       *)
(* size_of(Box)).  Node positions are 0-based as in the source; the        *)
(* sequences that hold them are 1-based, so position p is element p + 1.   *)
(*                                                                         *)
(* Coordinates are integers.  For the f64 tree they stand for the doubles  *)
(* of the same value: sums, differences and products of the small integers *)
(* of the model are exact in f64, and the one division (the Hilbert        *)
(* scaling) is taken exactly, see HilbertCoord.                            *)
(***************************************************************************)
EXTENDS Integers, Sequences, FiniteSets, Bags, TLC

(***************************************************************************)
(* Bounds of the model.                                                    *)
(***************************************************************************)
\* most items ever added to the tree
MaxItems == 18
\* largest k passed to a K-bounded query
MaxK == 2

(***************************************************************************)
(* Program constants.                                                      *)
(***************************************************************************)
DEFAULT_NODE_SIZE == 16
HEADER_SIZE == 8
MAX_HILBERT == 65535
\* size_of::<Box>() and size_of::<BoxI32>(), size_of::<u32>()
SIZE_OF_BOX_F64 == 32
SIZE_OF_BOX_I32 == 16
SIZE_OF_U32 == 4
\* the bias of the exponent of an f64 (IEEE 754 binary64)
F64_EXPONENT_BIAS == 1023
\* capacity in boxes that HilbertRTreeI32::add gives the buffer on the first add
I32_FIRST_CAPACITY == 128
\* f64::INFINITY, the start value of the f64 bounds: a value above every
\* coordinate of the model (it is replaced by the first add and never used
\* in arithmetic)
F64_INFINITY == 2147483647
I32_MAX == 2147483647
I32_MIN == -2147483647 - 1

Min(a, b) == IF a < b THEN a ELSE b
Max(a, b) == IF a > b THEN a ELSE b

\* usize::div_ceil as the division that rounds down
DivRoundedDown(a, b) == a \div b

\* usize::div_ceil
DivCeil(a, b) == (a + b - 1) \div b

(***************************************************************************)
(* Bit operations on unsigned integers, as arithmetic.                     *)
(***************************************************************************)
RECURSIVE BitAnd(_, _)
BitAnd(a, b) ==
    IF a = 0 \/ b = 0 THEN 0
    ELSE 2 * BitAnd(a \div 2, b \div 2)
         + (IF a % 2 = 1 /\ b % 2 = 1 THEN 1 ELSE 0)

RECURSIVE BitOr(_, _)
BitOr(a, b) ==
    IF a = 0 THEN b
    ELSE IF b = 0 THEN a
    ELSE 2 * BitOr(a \div 2, b \div 2)
         + (IF a % 2 = 1 \/ b % 2 = 1 THEN 1 ELSE 0)

RECURSIVE BitXor(_, _)
BitXor(a, b) ==
    IF a = 0 THEN b
    ELSE IF b = 0 THEN a
    ELSE 2 * BitXor(a \div 2, b \div 2)
         + (IF a % 2 # b % 2 THEN 1 ELSE 0)

Shr(a, n) == a \div (2 ^ n)
Shl(a, n) == a * (2 ^ n)

\* fn interleave: spreads the 16 bits of x over the even bits of a u32
interleave(x0) ==
    LET x1 == BitAnd(BitOr(x0, Shl(x0, 8)), 16711935)    \* 0x00FF00FF
        x2 == BitAnd(BitOr(x1, Shl(x1, 4)), 252645135)   \* 0x0F0F0F0F
        x3 == BitAnd(BitOr(x2, Shl(x2, 2)), 858993459)   \* 0x33333333
        x4 == BitAnd(BitOr(x3, Shl(x3, 1)), 1431655765)  \* 0x55555555
    IN  x4

(***************************************************************************)
(* fn hilbert_xy_to_index(x, y) -> u32.  The result h = (interleave(i1) << *)
(* 1) | interleave(i0) may need all 32 bits, one more than a signed 32-bit *)
(* integer holds, so it is returned as the pair <<h div 2, h mod 2>>; the  *)
(* two interleaved words have no bit in common, so h = 2 * I1 + I0.        *)
(***************************************************************************)
hilbert_xy_to_index(x, y) ==
    LET a0 == BitXor(x, y)
        b0 == BitXor(65535, a0)
        c0 == BitXor(65535, BitOr(x, y))
        d0 == BitAnd(x, BitXor(y, 65535))
        A1 == BitOr(a0, Shr(b0, 1))
        B1 == BitXor(Shr(a0, 1), a0)
        C1 == BitXor(BitXor(Shr(c0, 1), BitAnd(b0, Shr(d0, 1))), c0)
        D1 == BitXor(BitXor(BitAnd(a0, Shr(c0, 1)), Shr(d0, 1)), d0)
        \* round 2
        A2 == BitXor(BitAnd(A1, Shr(A1, 2)), BitAnd(B1, Shr(B1, 2)))
        B2 == BitXor(BitAnd(A1, Shr(B1, 2)), BitAnd(B1, Shr(BitXor(A1, B1), 2)))
        C2 == BitXor(C1, BitXor(BitAnd(A1, Shr(C1, 2)), BitAnd(B1, Shr(D1, 2))))
        D2 == BitXor(D1, BitXor(BitAnd(B1, Shr(C1, 2)),
                                BitAnd(BitXor(A1, B1), Shr(D1, 2))))
        \* round 4
        A3 == BitXor(BitAnd(A2, Shr(A2, 4)), BitAnd(B2, Shr(B2, 4)))
        B3 == BitXor(BitAnd(A2, Shr(B2, 4)), BitAnd(B2, Shr(BitXor(A2, B2), 4)))
        C3 == BitXor(C2, BitXor(BitAnd(A2, Shr(C2, 4)), BitAnd(B2, Shr(D2, 4))))
        D3 == BitXor(D2, BitXor(BitAnd(B2, Shr(C2, 4)),
                                BitAnd(BitXor(A2, B2), Shr(D2, 4))))
        \* final round and projection
        C4 == BitXor(C3, BitXor(BitAnd(A3, Shr(C3, 8)), BitAnd(B3, Shr(D3, 8))))
        D4 == BitXor(D3, BitXor(BitAnd(B3, Shr(C3, 8)),
                                BitAnd(BitXor(A3, B3), Shr(D3, 8))))
        \* undo transformation prefix scan
        a5 == BitXor(C4, Shr(C4, 1))
        b5 == BitXor(D4, Shr(D4, 1))
        \* recover index bits
        i0 == BitXor(x, y)
        i1 == BitOr(b5, BitXor(65535, BitOr(i0, a5)))
        I1 == interleave(i1)
        I0 == interleave(i0)
    IN  <<I1 + (I0 \div 2), I0 % 2>>

\* u32 `<` on two values held as <<h div 2, h mod 2>>
HilbertLess(h, g) == h[1] < g[1] \/ (h[1] = g[1] /\ h[2] < g[2])


(***************************************************************************)
(* Boxes.                                                                  *)
(***************************************************************************)
\* Box::new / BoxI32::new
Box(a, b, c, d) == [min_x |-> a, min_y |-> b, max_x |-> c, max_y |-> d]

\* the bytes Vec::resize(.., 0) writes, read as a box and as an index
ZeroBox == Box(0, 0, 0, 0)

\* the boxes the first add call chooses from: three boxes that overlap or
\* touch at a corner, and a point
Pool == { Box(0, 0, 2, 2), Box(1, 1, 3, 3), Box(4, 4, 5, 5), Box(2, 2, 2, 2) }

\* the box of the n-th add call (n counts from 0) from the second call on:
\* boxes and points scattered over the plane in an order that is not the
\* Hilbert order
Feed(n) ==
    LET x == (3 * n) % 8
        y == (5 * n + (n \div 8)) % 8
        w == n % 3
        h == (n \div 3) % 2
    IN  Box(x, y, x + w, y + h)

\* the boxes add call n may pass: the first call any box of Pool, the second
\* the next box of Feed or a box of Pool again (so two items may hold the
\* same box), every later call the next box of Feed
AddChoices(n) ==
    IF n = 0 THEN Pool
    ELSE IF n = 1 THEN { Feed(n), Box(1, 1, 3, 3) }
    ELSE { Feed(n) }

(***************************************************************************)
(* State.                                                                  *)
(***************************************************************************)
VARIABLES
    variant,       \* "f64": HilbertRTree, "i32": HilbertRTreeI32
    boxes,         \* data, the box array: position p is boxes[p + 1]
    indices,       \* data, the index array: position p is indices[p + 1]
    data_len,      \* data.len()
    header,        \* data[0..8]: <<magic, version, node_size, num_items>>
    level_bounds,  \* self.level_bounds
    node_size,     \* self.node_size
    num_items,     \* self.num_items
    total_nodes,   \* self.total_nodes
    bounds,        \* self.bounds
    results,       \* the caller's result vector
    call,          \* the caller's last call: operation, arguments, outcome
    pc,            \* the caller: "ready" to call, or a query has "returned"
    added,         \* history: the boxes passed to add, in order
    builds,        \* history: the build calls that found items
    file,          \* the file save writes and load reads; << >>: no file
    capacity,      \* data.capacity(): the least the calls so far guarantee
    run,           \* the queries in progress, one record for each reader
    sort           \* the quicksort calls of a build in progress, or NoSort

tree == <<boxes, indices, data_len, header, level_bounds, node_size,
          num_items, total_nodes, bounds>>
hist == <<added, builds>>
steps == <<run, sort>>
vars == <<variant, boxes, indices, data_len, header, level_bounds, node_size,
          num_items, total_nodes, bounds, results, call, pc, added, builds,
          file, capacity, run, sort>>

size_of_box == IF variant = "f64" THEN SIZE_OF_BOX_F64 ELSE SIZE_OF_BOX_I32

NoCall == [op |-> "none"]

\* the callers that share one tree by reference
Readers == {1, 2}
\* a reader that is in no query
Idle == [at |-> "idle"]
\* no build is inside quicksort
NoSort == << >>

\* HilbertRTree::with_capacity(0) / HilbertRTreeI32::with_capacity(0)
with_capacity ==
    /\ boxes = << >>
    /\ indices = << >>
    /\ data_len = 0
    /\ header = << >>
    /\ level_bounds = << >>
    /\ node_size = DEFAULT_NODE_SIZE
    /\ num_items = 0
    /\ total_nodes = 0
    /\ bounds = IF variant = "f64"
                THEN Box(F64_INFINITY, F64_INFINITY, -F64_INFINITY, -F64_INFINITY)
                ELSE Box(I32_MAX, I32_MAX, I32_MIN, I32_MIN)

Init ==
    /\ variant \in {"f64", "i32"}
    /\ with_capacity
    /\ results = << >>
    /\ call = NoCall
    /\ pc = "ready"
    /\ added = << >>
    /\ builds = 0
    /\ file = << >>
    /\ capacity = 0
    /\ run = [r \in Readers |-> Idle]
    /\ sort = NoSort

(***************************************************************************)
(* Accessors.                                                              *)
(***************************************************************************)
get_box(pos) == boxes[pos + 1]

\* the exponent of the largest power of two that is <= v, for v >= 1
RECURSIVE Log2Floor(_)
Log2Floor(v) == IF v < 2 THEN 0 ELSE 1 + Log2Floor(v \div 2)

\* the high 32 bits of the f64 that holds the whole number v, 0 <= v < 2^21:
\* exponent + 1023 in bits 20..30, the top of the mantissa below; the low 32
\* bits of such an f64 are 0
F64HighWord(v) ==
    IF v = 0 THEN 0
    ELSE LET exp == Log2Floor(v)
         IN  Shl(F64_EXPONENT_BIAS + exp, 20) + Shl(v - 2 ^ exp, 20 - exp)

\* the 4-byte words a box takes in the buffer, little endian
BoxWords(b) ==
    IF variant = "f64"
    THEN <<0, F64HighWord(b.min_x), 0, F64HighWord(b.min_y),
           0, F64HighWord(b.max_x), 0, F64HighWord(b.max_y)>>
    ELSE <<b.min_x, b.min_y, b.max_x, b.max_y>>

WordsPerBox == size_of_box \div SIZE_OF_U32

\* the u32 at indices_start + pos * 4, indices_start being HEADER_SIZE +
\* total_nodes * size_of::<Box>().  A box that add wrote at a position >=
\* total_nodes lies over the index array: the index read there is a word of
\* that box.  Bytes past the index array that no box was written to are the
\* zeros of resize.
get_index(pos) ==
    LET word == total_nodes * WordsPerBox + pos
        p == word \div WordsPerBox
    IN  IF p < Len(boxes) THEN BoxWords(boxes[p + 1])[(word % WordsPerBox) + 1]
        ELSE IF pos < Len(indices) THEN indices[pos + 1]
        ELSE 0

\* a sequence with the element at 0-based position pos replaced
SetAt(s, pos, v) == [s EXCEPT ![pos + 1] = v]

(***************************************************************************)
(* add.  The box is written at position num_items of the box array and the *)
(* running bounds are widened.                                             *)
(***************************************************************************)
AddDataLen(len) ==
    IF variant = "f64"
    THEN \* needed_len > data.len() => set_len(needed_len)
         Max(len, HEADER_SIZE + (num_items + 1) * SIZE_OF_BOX_F64)
    ELSE LET first == IF num_items = 0
                      THEN HEADER_SIZE + I32_FIRST_CAPACITY * SIZE_OF_BOX_I32
                      ELSE len
             required == HEADER_SIZE + (num_items + 1) * SIZE_OF_BOX_I32
         IN  IF required > first THEN Max(first * 2, required) ELSE first

\* estimate_total_nodes and estimate_buffer_size of the f64 tree
estimate_total_nodes(n, nsize) ==
    IF n = 0 THEN 0 ELSE (n * nsize) \div (nsize - 1) + 1
estimate_buffer_size(n, nsize) ==
    HEADER_SIZE
    + estimate_total_nodes(n, nsize) * (SIZE_OF_BOX_F64 + SIZE_OF_U32)

\* Vec::reserve(additional): the capacity is at least len + additional
Reserve(cap, len, additional) == Max(cap, len + additional)

\* the capacity after add: f64 reserves when the estimate exceeds the
\* capacity, i32 resizes and a resize makes room for the new length
AddCapacity ==
    IF variant = "f64"
    THEN LET required_size == estimate_buffer_size(num_items + 1, node_size)
             new_capacity == Max(capacity * 2, required_size)
         IN  IF required_size > capacity
             THEN Reserve(capacity, data_len, new_capacity - capacity)
             ELSE capacity
    ELSE Max(capacity, AddDataLen(data_len))

add(b) ==
    /\ boxes' = IF num_items < Len(boxes)
                THEN SetAt(boxes, num_items, b)
                ELSE Append(boxes, b)
    /\ data_len' = AddDataLen(data_len)
    /\ bounds' = Box(Min(bounds.min_x, b.min_x), Min(bounds.min_y, b.min_y),
                     Max(bounds.max_x, b.max_x), Max(bounds.max_y, b.max_y))
    /\ num_items' = num_items + 1
    /\ added' = Append(added, b)
    /\ capacity' = AddCapacity
    /\ UNCHANGED <<variant, indices, header, level_bounds, node_size,
                   total_nodes, results, call, pc, builds, file, steps>>

(***************************************************************************)
(* build: level bounds.                                                    *)
(***************************************************************************)
\* the loop of calculate_exact_total_nodes
RECURSIVE TotalNodesLoop(_, _, _)
TotalNodesLoop(count, total, nsize) ==
    LET c == DivCeil(count, nsize)
    IN  IF c <= 1 THEN total + c ELSE TotalNodesLoop(c, total + c, nsize)

calculate_exact_total_nodes(n, nsize) ==
    IF n = 0 THEN 0 ELSE TotalNodesLoop(n, n, nsize)

\* the loop of build that pushes one level bound per parent level
RECURSIVE LevelBoundsLoop(_, _, _, _)
LevelBoundsLoop(count, total, lb, nsize) ==
    LET c == DivCeil(count, nsize)
        nlb == Append(lb, total + c)
    IN  IF c <= 1 THEN nlb ELSE LevelBoundsLoop(c, total + c, nlb, nsize)

CalcLevelBounds(n, nsize) == LevelBoundsLoop(n, n, <<n>>, nsize)

(***************************************************************************)
(* build: Hilbert values of the leaves.                                    *)
(*   center = ((min + max) / 2.0 - bounds.min) * (MAX_HILBERT / width)     *)
(*   h      = center.max(0.0).min(MAX_HILBERT - 1.0) as u32                *)
(* taken exactly: floor of ((min + max) - 2 bounds.min) * MAX_HILBERT /    *)
(* (2 width), clamped.  A zero width: the f64 tree divides by zero (the    *)
(* scale is +inf, and 0 * inf = NaN, which max(0.0) turns into 0); the i32 *)
(* tree takes the scale 0.0.                                               *)
(***************************************************************************)
Clamp(v, lo, hi) == Max(lo, Min(v, hi))

\* whether the i32 subtraction bmax - bmin leaves the range of i32 (it can
\* only by exceeding i32::MAX, bmax being the greater)
SubOverflows(bmax, bmin) == bmin < 0 /\ bmax > I32_MAX + bmin

\* the i32 tree computes the width as (bounds.max - bounds.min) as f64, an
\* i32 subtraction.  Where it overflows and the build wraps, the width
\* comes out as the difference less 2^32, a negative number: the scale is
\* negative, the scaled centre is not above zero, and max(0.0) makes it 0.
HilbertCoord(cmin, cmax, bmin, bmax) ==
    LET num == (cmin + cmax) - 2 * bmin
        width == bmax - bmin
    IN  IF variant = "i32" /\ bmax > bmin /\ SubOverflows(bmax, bmin) THEN 0
        ELSE IF width > 0
        THEN Clamp((num * MAX_HILBERT) \div (2 * width), 0, MAX_HILBERT - 1)
        ELSE IF variant = "f64" /\ num > 0 THEN MAX_HILBERT - 1
        ELSE 0

HilbertValue(b, bnd) ==
    hilbert_xy_to_index(HilbertCoord(b.min_x, b.max_x, bnd.min_x, bnd.max_x),
                        HilbertCoord(b.min_y, b.max_y, bnd.min_y, bnd.max_y))

\* hilbert_values: the value of the leaf at each position 0 .. n-1, pushed
\* one by one
RECURSIVE HilbertValues(_, _, _)
HilbertValues(bx, n, bnd) ==
    IF n = 0 THEN << >>
    ELSE Append(HilbertValues(bx, n - 1, bnd), HilbertValue(bx[n], bnd))

(***************************************************************************)
(* build (f64): sort_indices.sort_unstable_by_key(|&i| hilbert_values[i]). *)
(* The sort is unstable: positions with equal keys may come out in any     *)
(* order, so every order that is sorted by key is a possible outcome.      *)
(***************************************************************************)
RECURSIVE SortedOrders(_, _)
SortedOrders(hv, S) ==
    IF S = {} THEN { << >> }
    ELSE LET least == { i \in S : \A j \in S : ~HilbertLess(hv[j], hv[i]) }
         IN  UNION { { <<i>> \o rest : rest \in SortedOrders(hv, S \ {i}) }
                     : i \in least }

(***************************************************************************)
(* build (i32): quicksort with median_of_three and swap_elements.  The     *)
(* state sorted is s = [hv, b, i]: the Hilbert values, the box array and   *)
(* the index array; left and right are 0-based.                            *)
(***************************************************************************)
HilbertMax(h, g) == IF HilbertLess(h, g) THEN g ELSE h

median_of_three(values, left, right) ==
    LET mid == (left + right) \div 2
        a == values[left + 1]
        b == values[mid + 1]
        c == values[right + 1]
        x == HilbertMax(a, b)
    IN  IF HilbertLess(x, c) THEN x
        ELSE IF x = a THEN HilbertMax(b, c)
        ELSE IF x = b THEN HilbertMax(a, c)
        ELSE c

\* swap_elements with the index written over instead of exchanged
swap_elements_index_lost(s, left, right) ==
    [hv |-> [s.hv EXCEPT ![left + 1] = s.hv[right + 1],
                         ![right + 1] = s.hv[left + 1]],
     b  |-> [s.b EXCEPT ![left + 1] = s.b[right + 1],
                        ![right + 1] = s.b[left + 1]],
     i  |-> [s.i EXCEPT ![left + 1] = s.i[right + 1]]]

\* swap_elements with the boxes exchanged and the indices left in place
swap_elements_boxes_only(s, left, right) ==
    [hv |-> [s.hv EXCEPT ![left + 1] = s.hv[right + 1],
                         ![right + 1] = s.hv[left + 1]],
     b  |-> [s.b EXCEPT ![left + 1] = s.b[right + 1],
                        ![right + 1] = s.b[left + 1]],
     i  |-> s.i]

swap_elements(s, left, right) ==
    [hv |-> [s.hv EXCEPT ![left + 1] = s.hv[right + 1],
                         ![right + 1] = s.hv[left + 1]],
     b  |-> [s.b EXCEPT ![left + 1] = s.b[right + 1],
                        ![right + 1] = s.b[left + 1]],
     i  |-> [s.i EXCEPT ![left + 1] = s.i[right + 1],
                        ![right + 1] = s.i[left + 1]]]

\* loop { pivot_left += 1; if hilbert_values[pivot_left] >= pivot { break } }
RECURSIVE ScanLeft(_, _, _)
ScanLeft(hv, pivot, pl) ==
    IF ~HilbertLess(hv[pl + 2], pivot) THEN pl + 1
    ELSE ScanLeft(hv, pivot, pl + 1)

\* loop { pivot_right -= 1; if hilbert_values[pivot_right] <= pivot { break } }
RECURSIVE ScanRight(_, _, _)
ScanRight(hv, pivot, pr) ==
    IF ~HilbertLess(pivot, hv[pr]) THEN pr - 1
    ELSE ScanRight(hv, pivot, pr - 1)

\* the partition loop of quicksort; yields the sorted state and pivot_right
RECURSIVE Partition(_, _, _, _)
Partition(s, pivot, pivot_left, pivot_right) ==
    LET pl == ScanLeft(s.hv, pivot, pivot_left)
        pr == ScanRight(s.hv, pivot, pivot_right)
    IN  IF pl >= pr THEN [s |-> s, pivot_right |-> pr]
        ELSE Partition(swap_elements(s, pl, pr), pivot, pl, pr)

RECURSIVE quicksort(_, _, _)
quicksort(s, left, right) ==
    IF left >= right THEN s
    ELSE LET pivot == median_of_three(s.hv, left, right)
             part == Partition(s, pivot, left - 1, right + 1)
             s1 == IF part.pivot_right > left
                   THEN quicksort(part.s, left, part.pivot_right)
                   ELSE part.s
         IN  IF part.pivot_right + 1 < right
             THEN quicksort(s1, part.pivot_right + 1, right)
             ELSE s1

(***************************************************************************)
(* build: parent levels.  t = [b, i] holds the box and index arrays.       *)
(***************************************************************************)
Union(p, q) == Box(Min(p.min_x, q.min_x), Min(p.min_y, q.min_y),
                   Max(p.max_x, q.max_x), Max(p.max_y, q.max_y))

\* MergeChildren with the loop ended one child early
RECURSIVE MergeChildrenButLast(_, _, _, _)
MergeChildrenButLast(bx, node_box, pos, last) ==
    IF pos + 1 >= last THEN node_box
    ELSE MergeChildrenButLast(bx, Union(node_box, bx[pos + 1]), pos + 1, last)

\* "Merge up to node_size children": the box of positions pos .. last - 1
RECURSIVE MergeChildren(_, _, _, _)
MergeChildren(bx, node_box, pos, last) ==
    IF pos >= last THEN node_box
    ELSE MergeChildren(bx, Union(node_box, bx[pos + 1]), pos + 1, last)

\* while pos < level_end: one parent per group of up to nsize children
RECURSIVE BuildLevel(_, _, _, _, _)
BuildLevel(t, pos, parent_pos, level_end, nsize) ==
    IF pos >= level_end THEN t
    ELSE LET last == Min(pos + nsize, level_end)
             node_index == Shl(pos, 2)
             node_box == MergeChildren(t.b, t.b[pos + 1], pos, last)
         IN  BuildLevel([b |-> SetAt(t.b, parent_pos, node_box),
                         i |-> SetAt(t.i, parent_pos, node_index)],
                        last, parent_pos + 1, level_end, nsize)

\* for level_idx in 0 .. level_bounds.len() - 1
RECURSIVE BuildParents(_, _, _, _, _)
BuildParents(t, pos, level_idx, lb, nsize) ==
    IF level_idx >= Len(lb) - 1 THEN t
    ELSE LET level_end == lb[level_idx + 1]
         IN  BuildParents(BuildLevel(t, pos, level_end, level_end, nsize),
                          level_end, level_idx + 1, lb, nsize)


(***************************************************************************)
(* build.  BuildOutcomes is the set of [b, i] (box array, index array) the *)
(* call can leave: one, or one per order the unstable sort may produce.    *)
(* The arrays are taken at their final size first: the positions the       *)
(* buffer did not have yet are zero-filled by resize, and every parent     *)
(* position and every index is written before build returns.               *)
(***************************************************************************)
BuildOutcomes ==
    LET n == num_items
        total == calculate_exact_total_nodes(n, node_size)
        lb == CalcLevelBounds(n, node_size)
        bx0 == [p \in 1..total |-> IF p <= Len(boxes) THEN boxes[p] ELSE ZeroBox]
        ix0 == [p \in 1..total |-> 0]
    IN  IF n <= node_size
        THEN \* all items fit in one node: identity leaf indices, the root
             \* holds the bounds and points at position 0
             { [b |-> SetAt(bx0, n, bounds),
                i |-> [p \in 1..total |-> IF p <= n THEN p - 1 ELSE Shl(0, 2)]] }
        ELSE LET hv == HilbertValues(bx0, n, bounds)
             IN  IF variant = "f64"
                 THEN { BuildParents(
                          [b |-> [p \in 1..total |->
                                    IF p <= n THEN bx0[order[p]] ELSE bx0[p]],
                           i |-> [p \in 1..total |->
                                    IF p <= n THEN order[p] - 1 ELSE ix0[p]]],
                          0, 0, lb, node_size)
                        : order \in SortedOrders(hv, 1..n) }
                 ELSE { BuildParents(
                          LET s == quicksort(
                                     [hv |-> hv, b |-> bx0,
                                      i |-> [p \in 1..total |->
                                               IF p <= n THEN p - 1 ELSE ix0[p]]],
                                     0, n - 1)
                          IN  [b |-> s.b, i |-> s.i],
                          0, 0, lb, node_size) }

BuildDataLen ==
    LET data_size == HEADER_SIZE
                     + calculate_exact_total_nodes(num_items, node_size)
                       * (size_of_box + SIZE_OF_U32)
    IN  IF variant = "f64" THEN Max(data_len, data_size) ELSE data_size

\* the version byte build writes: 0x01 in both trees
VersionByte == 1

\* the capacity after build: f64 reserves, then resizes when the buffer is
\* shorter than the tree; i32 resizes
BuildCapacity ==
    LET data_size == HEADER_SIZE
                     + calculate_exact_total_nodes(num_items, node_size)
                       * (size_of_box + SIZE_OF_U32)
        reserved == IF variant = "f64" /\ data_size > capacity
                    THEN Reserve(capacity, data_len, data_size - capacity)
                    ELSE capacity
    IN  IF variant = "f64" /\ data_len >= data_size
        THEN reserved
        ELSE Max(reserved, data_size)

build ==
    /\ IF num_items = 0
       THEN UNCHANGED <<tree, builds, capacity>>
       ELSE /\ \E t \in BuildOutcomes :
                 /\ boxes' = t.b
                 /\ indices' = t.i
            /\ data_len' = BuildDataLen
            /\ header' = <<251, VersionByte, node_size, num_items>>
            /\ level_bounds' = CalcLevelBounds(num_items, node_size)
            /\ total_nodes' = calculate_exact_total_nodes(num_items, node_size)
            /\ builds' = builds + 1
            /\ capacity' = BuildCapacity
            /\ UNCHANGED <<node_size, num_items, bounds>>
    /\ UNCHANGED <<variant, results, call, pc, added, file, steps>>

(***************************************************************************)
(* build of the i32 tree where the width or the height of the bounds does  *)
(* not fit i32.  A build without overflow checks wraps and goes on (build, *)
(* with HilbertCoord as above); a build with overflow checks panics at the *)
(* subtraction: the buffer is resized and zero-filled, the header and the  *)
(* level bounds are written, no index is.                                  *)
(***************************************************************************)
build_overflows ==
    /\ variant = "i32"
    /\ num_items > node_size
    /\ \/ bounds.max_x > bounds.min_x /\ SubOverflows(bounds.max_x, bounds.min_x)
       \/ bounds.max_y > bounds.min_y /\ SubOverflows(bounds.max_y, bounds.min_y)

build_panics ==
    LET total == calculate_exact_total_nodes(num_items, node_size)
    IN  /\ boxes' = [p \in 1..total |->
                        IF p <= Len(boxes) THEN boxes[p] ELSE ZeroBox]
        /\ indices' = [p \in 1..total |-> 0]
        /\ data_len' = BuildDataLen
        /\ header' = <<251, VersionByte, node_size, num_items>>
        /\ level_bounds' = CalcLevelBounds(num_items, node_size)
        /\ total_nodes' = total
        /\ call' = [op |-> "build", ret |-> "panic"]
        /\ pc' = "panicked"
        /\ capacity' = BuildCapacity
        /\ UNCHANGED <<variant, node_size, num_items, bounds, results, hist,
                       file, steps>>

(***************************************************************************)
(* Queries: the tests on one node box.                                     *)
(***************************************************************************)
\* IntersectsTest with the comparisons made strict: a box that only touches
\* the window is skipped
IntersectsTestStrict(w, b) ==
    ~(w.max_x <= b.min_x \/ w.max_y <= b.min_y
      \/ w.min_x >= b.max_x \/ w.min_y >= b.max_y)

\* query_intersecting, query_intersecting_k: the node is skipped when
\* max_x < box.min_x || max_y < box.min_y || min_x > box.max_x || min_y > box.max_y
IntersectsTest(w, b) ==
    ~(w.max_x < b.min_x \/ w.max_y < b.min_y
      \/ w.min_x > b.max_x \/ w.min_y > b.max_y)

\* the flat scan of query_intersecting
FlatScanTest(w, b) ==
    w.max_x >= b.min_x /\ w.max_y >= b.min_y
    /\ w.min_x <= b.max_x /\ w.min_y <= b.max_y

\* PointTest with the comparisons made strict: a point on the border of the
\* box is outside
PointTestStrict(x, y, b) ==
    ~(x <= b.min_x \/ x >= b.max_x \/ y <= b.min_y \/ y >= b.max_y)

\* query_point: the node is skipped when the point is outside it
PointTest(x, y, b) ==
    ~(x < b.min_x \/ x > b.max_x \/ y < b.min_y \/ y > b.max_y)

\* ContainTest with the last comparison against the wrong side of the window
ContainTestWrongSide(w, b) ==
    b.min_x <= w.min_x /\ b.max_x >= w.max_x
    /\ b.min_y <= w.min_y /\ b.max_y >= w.min_y

\* query_contain: the node contains the query rectangle
ContainTest(w, b) ==
    b.min_x <= w.min_x /\ b.max_x >= w.max_x
    /\ b.min_y <= w.min_y /\ b.max_y >= w.max_y

\* WithinParentTest with the test of the leaves: a parent is descended only
\* when it lies in the query rectangle
WithinParentTestAsLeaf(w, b) ==
    b.min_x >= w.min_x /\ b.max_x <= w.max_x
    /\ b.min_y >= w.min_y /\ b.max_y <= w.max_y

\* query_contained_within, a parent: any overlap with the query rectangle
WithinParentTest(w, b) ==
    b.max_x >= w.min_x /\ b.max_y >= w.min_y
    /\ b.min_x <= w.max_x /\ b.min_y <= w.max_y

\* query_contained_within, a leaf: fully contained
WithinLeafTest(w, b) ==
    b.min_x >= w.min_x /\ b.max_x <= w.max_x
    /\ b.min_y >= w.min_y /\ b.max_y <= w.max_y

axis_distance(coordinate, min, max) ==
    IF coordinate < min THEN min - coordinate
    ELSE IF coordinate > max THEN coordinate - max
    ELSE 0

\* dx * dx + dy * dy for the box and the point
BoxDistSq(x, y, b) ==
    LET dx == axis_distance(x, b.min_x, b.max_x)
        dy == axis_distance(y, b.min_y, b.max_y)
    IN  dx * dx + dy * dy

\* CircleTest against the radius instead of its square
CircleTestNotSquared(c, b) == BoxDistSq(c.x, c.y, b) <= c.radius

\* query_circle: dist_sq <= radius_sq
CircleTest(c, b) == BoxDistSq(c.x, c.y, b) <= c.radius * c.radius

\* query_in_direction, query_in_direction_k: the node is skipped when
\* sweep_max_x < box.min_x || sweep_max_y < box.min_y
\*   || sweep_min_x > box.max_x || sweep_min_y > box.max_y
SweepTest(w, b) ==
    ~(w.max_x < b.min_x \/ w.max_y < b.min_y
      \/ w.min_x > b.max_x \/ w.min_y > b.max_y)

\* the test a traversal of the given kind applies to the node box b; q holds
\* the query's arguments, is_parent tells how the node is treated
NodeTest(kind, q, b, is_parent) ==
    CASE kind \in {"query_intersecting", "query_intersecting_k"} ->
             IntersectsTest(q.w, b)
      [] kind = "query_point" -> PointTest(q.x, q.y, b)
      [] kind = "query_contain" -> ContainTest(q.w, b)
      [] kind = "query_contained_within" ->
             IF is_parent THEN WithinParentTest(q.w, b) ELSE WithinLeafTest(q.w, b)
      [] kind = "query_circle" -> CircleTest(q, b)
      [] kind = "query_in_direction" -> SweepTest(q.w, b)

(***************************************************************************)
(* Queries: the breadth-first traversal all window, point, containment and *)
(* circle queries share.  acc = [res, queue]: the result vector and the    *)
(* queue of node positions.                                                *)
(***************************************************************************)
\* first level bound > node_index, or total_nodes
upper_bound(node_index) ==
    LET above == { i \in 1..Len(level_bounds) : level_bounds[i] > node_index }
    IN  IF above = {} THEN total_nodes
        ELSE level_bounds[CHOOSE i \in above : \A j \in above : i <= j]

\* whether the node at pos is a parent (queued) or a leaf (emitted): the f64
\* tree and query_intersecting_k of both trees compare pos with num_items,
\* the other i32 queries compare node_index, the first position of the group
IsParent(kind, node_index, pos) ==
    IF variant = "f64" \/ kind = "query_intersecting_k"
    THEN pos >= num_items
    ELSE node_index >= num_items

\* KReached one result late: results.len() > k
KReachedLate(kind, q, res) == kind = "query_intersecting_k" /\ Len(res) > q.k

\* the K-bounded traversal stops as soon as results.len() >= k
KReached(kind, q, res) == kind = "query_intersecting_k" /\ Len(res) >= q.k

\* for pos in node_index .. end_pos
RECURSIVE ScanGroup(_, _, _, _, _, _)
ScanGroup(kind, q, node_index, pos, end_pos, acc) ==
    IF pos >= end_pos \/ KReached(kind, q, acc.res) THEN acc
    ELSE LET is_parent == IsParent(kind, node_index, pos)
             next ==
               IF ~NodeTest(kind, q, get_box(pos), is_parent) THEN acc
               ELSE IF is_parent
                    THEN [acc EXCEPT !.queue = Append(@, Shr(get_index(pos), 2))]
                    ELSE [acc EXCEPT !.res = Append(@, get_index(pos))]
         IN  ScanGroup(kind, q, node_index, pos + 1, end_pos, next)

\* Traverse with every group ended one position early
RECURSIVE TraverseGroupsCutShort(_, _, _, _)
TraverseGroupsCutShort(kind, q, node_index, acc) ==
    IF KReached(kind, q, acc.res) THEN acc.res
    ELSE LET node_end == upper_bound(node_index)
             end_pos == Min(node_index + node_size - 1, node_end)
             a == ScanGroup(kind, q, node_index, node_index, end_pos, acc)
         IN  IF a.queue = << >> THEN a.res
             ELSE TraverseGroupsCutShort(kind, q, Head(a.queue),
                                         [res |-> a.res, queue |-> Tail(a.queue)])

\* loop { scan the group of node_index; if queue.is_empty() { break };
\*        node_index = queue.pop_front() }
RECURSIVE Traverse(_, _, _, _)
Traverse(kind, q, node_index, acc) ==
    IF KReached(kind, q, acc.res) THEN acc.res
    ELSE LET node_end == upper_bound(node_index)
             end_pos == Min(node_index + node_size, node_end)
             a == ScanGroup(kind, q, node_index, node_index, end_pos, acc)
         IN  IF a.queue = << >> THEN a.res
             ELSE Traverse(kind, q, Head(a.queue),
                           [res |-> a.res, queue |-> Tail(a.queue)])

\* the early return of every query: no items, or not built
NotBuilt == num_items = 0 \/ level_bounds = << >>

\* the traversal from the root, position total_nodes - 1
FromRoot(kind, q) ==
    Traverse(kind, q, total_nodes - 1, [res |-> << >>, queue |-> << >>])

(***************************************************************************)
(* The query functions.  Each yields the result vector the call leaves;    *)
(* pre is what the vector held on entry.                                   *)
(***************************************************************************)
\* for pos in 0 .. num_items: the flat scan of HilbertRTree::query_intersecting
RECURSIVE FlatScan(_, _, _)
FlatScan(w, pos, res) ==
    IF pos >= num_items THEN res
    ELSE FlatScan(w, pos + 1,
                  IF FlatScanTest(w, get_box(pos))
                  THEN Append(res, get_index(pos)) ELSE res)

\* query_area > bounds_area * 0.5
CoversHalf(w) ==
    2 * ((w.max_x - w.min_x) * (w.max_y - w.min_y))
      > (bounds.max_x - bounds.min_x) * (bounds.max_y - bounds.min_y)

\* HilbertRTree::query_intersecting
query_intersecting_f64(w, pre) ==
    IF NotBuilt THEN << >>
    ELSE IF CoversHalf(w) THEN FlatScan(w, 0, << >>)
    ELSE FromRoot("query_intersecting", [w |-> w])

\* HilbertRTreeI32::query_intersecting, query_point, query_contain and
\* query_contained_within return before results.clear() when nothing is built
I32Query(kind, q, pre) ==
    IF NotBuilt THEN pre ELSE FromRoot(kind, q)

query_intersecting(w, pre) ==
    IF variant = "f64" THEN query_intersecting_f64(w, pre)
    ELSE I32Query("query_intersecting", [w |-> w], pre)

query_point(x, y, pre) ==
    IF variant = "f64"
    THEN IF NotBuilt THEN << >> ELSE FromRoot("query_point", [x |-> x, y |-> y])
    ELSE I32Query("query_point", [x |-> x, y |-> y], pre)

query_contain(w, pre) ==
    IF variant = "f64"
    THEN IF NotBuilt THEN << >> ELSE FromRoot("query_contain", [w |-> w])
    ELSE I32Query("query_contain", [w |-> w], pre)

query_contained_within(w, pre) ==
    IF variant = "f64"
    THEN IF NotBuilt THEN << >> ELSE FromRoot("query_contained_within", [w |-> w])
    ELSE I32Query("query_contained_within", [w |-> w], pre)

\* both trees: cleared on every path
query_intersecting_k(w, k, pre) ==
    IF NotBuilt \/ k = 0 THEN << >>
    ELSE FromRoot("query_intersecting_k", [w |-> w, k |-> k])

\* HilbertRTree::query_circle
query_circle(cx, cy, radius, pre) ==
    IF NotBuilt \/ radius < 0 THEN << >>
    ELSE FromRoot("query_circle", [x |-> cx, y |-> cy, radius |-> radius])

\* results.retain(|&idx| idx != item_id)
Retain(res, item_id) == SelectSeq(res, LAMBDA idx : idx # item_id)

\* HilbertRTree::query_intersecting_id: [ret, res]
query_intersecting_id(item_id, pre) ==
    IF item_id >= num_items THEN [ret |-> "Err", res |-> pre]
    ELSE LET query_box == get_box(item_id)
         IN  [ret |-> "Ok",
              res |-> Retain(query_intersecting_f64(query_box, pre), item_id)]

(***************************************************************************)
(* HilbertRTree::query_nearest_k.  The two BinaryHeaps are held as bags:   *)
(* queue of NodeEntry [dist_sq, pos, is_leaf], popped smallest dist_sq     *)
(* first, and result_heap of ResultEntry [dist_sq, idx], popped largest    *)
(* dist_sq first.  Both orders compare dist_sq alone, so among entries of  *)
(* equal distance the heap may hand out any one: the search is followed    *)
(* for every such choice.  A search state is st = [queue, heap,            *)
(* max_dist_sq, done].                                                     *)
(***************************************************************************)
One(e) == SetToBag({e})

NodeEntry(x, y, pos, is_leaf) ==
    [dist_sq |-> BoxDistSq(x, y, get_box(pos)), pos |-> pos, is_leaf |-> is_leaf]

\* the entries queue.pop() may return
PopChoices(queue) ==
    { e \in BagToSet(queue) : \A f \in BagToSet(queue) : e.dist_sq <= f.dist_sq }

\* the entries result_heap.pop() may return (and peek() may show)
TopChoices(heap) ==
    { e \in BagToSet(heap) : \A f \in BagToSet(heap) : e.dist_sq >= f.dist_sq }

\* "Find which level this node is at": the first i with pos < level_bounds[i],
\* and 0 when there is none
LevelOf(pos) ==
    LET below == { i \in 0..(Len(level_bounds) - 1) : pos < level_bounds[i + 1] }
    IN  IF below = {} THEN 0 ELSE CHOOSE i \in below : \A j \in below : i <= j

\* for child_idx in 0 .. node_size: the children pushed for one parent
RECURSIVE PushChildren(_, _, _, _, _, _, _, _)
PushChildren(x, y, k, st, child_pos, last, child_end, is_leaf) ==
    IF child_pos >= last \/ child_pos >= child_end THEN st.queue
    ELSE LET e == NodeEntry(x, y, child_pos, is_leaf)
             rest == PushChildren(x, y, k, st, child_pos + 1, last, child_end, is_leaf)
         IN  IF e.dist_sq <= st.max_dist_sq \/ BagCardinality(st.heap) < k
             THEN rest (+) One(e) ELSE rest

\* an internal entry: its children go to the queue
Expand(x, y, k, st, entry) ==
    LET level == LevelOf(entry.pos)
        first_child == Shr(get_index(entry.pos), 2)
    IN  IF level > 0
        THEN LET child_level_start == level_bounds[level]
                 child_level_end == level_bounds[level]
             IN  PushChildren(x, y, k, st, first_child, first_child + node_size,
                              child_level_end, child_level_start = num_items)
        ELSE PushChildren(x, y, k, st, first_child, first_child + node_size,
                          num_items, TRUE)

\* a leaf entry: pushed to result_heap, the farthest popped when there are
\* more than k, the threshold updated when there are k
AddResult(k, st, entry) ==
    LET pushed == st.heap (+) One([dist_sq |-> entry.dist_sq,
                                   idx |-> get_index(entry.pos)])
        kept == IF BagCardinality(pushed) > k
                THEN { pushed (-) One(t) : t \in TopChoices(pushed) }
                ELSE { pushed }
    IN  { [st EXCEPT !.heap = h,
                     !.max_dist_sq =
                        IF BagCardinality(h) = k
                        THEN (CHOOSE t \in TopChoices(h) : TRUE).dist_sq
                        ELSE @]
          : h \in kept }

\* one turn of "while let Some(entry) = queue.pop()", for one popped entry
KnnVisit(x, y, k, st, entry) ==
    LET popped == [st EXCEPT !.queue = @ (-) One(entry)]
    IN  IF entry.dist_sq > st.max_dist_sq
        THEN IF BagCardinality(st.heap) = k
             THEN { [popped EXCEPT !.done = TRUE] }
             ELSE { popped }
        ELSE IF entry.is_leaf THEN AddResult(k, popped, entry)
        ELSE { [popped EXCEPT !.queue = Expand(x, y, k, popped, entry)] }

KnnStep(x, y, k, st) ==
    IF st.done THEN { st }
    ELSE IF st.queue = EmptyBag THEN { [st EXCEPT !.done = TRUE] }
    ELSE UNION { KnnVisit(x, y, k, st, e) : e \in PopChoices(st.queue) }

\* the loop, run until every search has ended; yields the result heaps
RECURSIVE KnnLoop(_, _, _, _)
KnnLoop(x, y, k, S) ==
    IF \A st \in S : st.done THEN { st.heap : st \in S }
    ELSE KnnLoop(x, y, k, UNION { KnnStep(x, y, k, st) : st \in S })

\* "Initialize queue with root nodes": the positions of the last level
RECURSIVE PushRoots(_, _, _, _)
PushRoots(x, y, pos, root_end) ==
    IF pos >= root_end THEN EmptyBag
    ELSE PushRoots(x, y, pos + 1, root_end) (+) One(NodeEntry(x, y, pos, FALSE))

\* SortedByDist without the sort: the entries in whatever order
\* result_heap.into_iter() hands them out
RECURSIVE HeapOrder(_)
HeapOrder(heap) ==
    IF heap = EmptyBag THEN { << >> }
    ELSE UNION { { <<e.idx>> \o rest : rest \in HeapOrder(heap (-) One(e)) }
                 : e \in BagToSet(heap) }

\* result_heap.into_iter() followed by sort_unstable_by on the distance:
\* every listing of the entries in non-decreasing distance
RECURSIVE SortedByDist(_)
SortedByDist(heap) ==
    IF heap = EmptyBag THEN { << >> }
    ELSE LET least == { e \in BagToSet(heap) :
                          \A f \in BagToSet(heap) : e.dist_sq <= f.dist_sq }
         IN  UNION { { <<e.idx>> \o rest : rest \in SortedByDist(heap (-) One(e)) }
                     : e \in least }

\* the search state after "Initialize queue with root nodes"
KnnStart(x, y) ==
    LET root_level == Len(level_bounds) - 1
        root_start == IF root_level > 0 THEN level_bounds[root_level] ELSE 0
        root_end == level_bounds[root_level + 1]
    IN  [queue |-> PushRoots(x, y, root_start, root_end),
         heap |-> EmptyBag,
         max_dist_sq |-> F64_INFINITY,
         done |-> FALSE]

\* the set of result vectors the call may leave
query_nearest_k(x, y, k, pre) ==
    IF NotBuilt \/ k = 0 THEN { << >> }
    ELSE UNION { SortedByDist(h) : h \in KnnLoop(x, y, k, {KnnStart(x, y)}) }

(***************************************************************************)
(* HilbertRTree::query_in_direction and query_in_direction_k.  A direction *)
(* is a pair <<dir_x, dir_y>>.  The directions the model passes have a     *)
(* whole length and the distances are multiples of it, so the normalised   *)
(* direction times the distance is a whole vector: dx = dir_x / dir_len *  *)
(* distance is computed as (dir_x * distance) / dir_len.                   *)
(***************************************************************************)
\* dir_len_sq.sqrt(), of a square
Sqrt(n) == CHOOSE r \in 0..n : r * r = n

\* dir_x * dir_x + dir_y * dir_y
DirLenSq(dir) == dir[1] * dir[1] + dir[2] * dir[2]

\* SweepBox with the direction left as it was passed, not normalised
SweepBoxNotNormalised(rect, dir, distance) ==
    LET dx == dir[1] * distance
        dy == dir[2] * distance
    IN  Box(Min(rect.min_x, rect.min_x + dx), Min(rect.min_y, rect.min_y + dy),
            Max(rect.max_x, rect.max_x + dx), Max(rect.max_y, rect.max_y + dy))

\* the sweep area: sweep_min = min.min(min + d), sweep_max = max.max(max + d)
SweepBox(rect, dir, distance) ==
    LET dir_len == Sqrt(DirLenSq(dir))
        dx == (dir[1] * distance) \div dir_len
        dy == (dir[2] * distance) \div dir_len
    IN  Box(Min(rect.min_x, rect.min_x + dx), Min(rect.min_y, rect.min_y + dy),
            Max(rect.max_x, rect.max_x + dx), Max(rect.max_y, rect.max_y + dy))

\* HilbertRTree::query_in_direction
query_in_direction(rect, dir, distance, pre) ==
    IF NotBuilt \/ distance < 0 THEN << >>
    ELSE IF DirLenSq(dir) <= 0 THEN << >>
    ELSE FromRoot("query_in_direction", [w |-> SweepBox(rect, dir, distance)])

\* dist_along_dir = relative_x * norm_dir_x + relative_y * norm_dir_y of the
\* box centre, held as a whole number: times 2 * dir_len, which is the
\* same positive factor for every candidate of a call
DistAlongDir(rect, dir, b) ==
    ((b.min_x + b.max_x) - 2 * rect.min_x) * dir[1]
    + ((b.min_y + b.max_y) - 2 * rect.min_y) * dir[2]

\* for pos in node_idx .. end_pos of query_in_direction_k; acc = [cands, stack]
RECURSIVE DirScanGroup(_, _, _, _, _, _)
DirScanGroup(rect, dir, w, pos, end_pos, acc) ==
    IF pos >= end_pos THEN acc
    ELSE LET b == get_box(pos)
             next ==
               IF ~SweepTest(w, b) THEN acc
               ELSE IF pos < num_items
                    THEN [acc EXCEPT !.cands =
                            Append(@, [d |-> DistAlongDir(rect, dir, b),
                                       idx |-> get_index(pos)])]
                    ELSE [acc EXCEPT !.stack = Append(@, Shr(get_index(pos), 2))]
         IN  DirScanGroup(rect, dir, w, pos + 1, end_pos, next)

\* while let Some(node_idx) = queue.pop(): the queue is a Vec, popped at its
\* end; node_idx is the node popped, acc what is left
RECURSIVE DirTraverse(_, _, _, _, _)
DirTraverse(rect, dir, w, node_idx, acc) ==
    LET node_end == upper_bound(node_idx)
        end_pos == Min(node_idx + node_size, node_end)
        a == DirScanGroup(rect, dir, w, node_idx, end_pos, acc)
        n == Len(a.stack)
    IN  IF n = 0 THEN a.cands
        ELSE DirTraverse(rect, dir, w, a.stack[n],
                         [cands |-> a.cands, stack |-> SubSeq(a.stack, 1, n - 1)])

\* for (_, idx) in ... { results.push(idx) }: the indices of the candidates
\* at the positions l lists
RECURSIVE PushIdx(_, _)
PushIdx(cands, l) ==
    IF l = << >> THEN << >>
    ELSE <<cands[Head(l)].idx>> \o PushIdx(cands, Tail(l))

\* the positions 1 .. n in order
RECURSIVE Positions(_)
Positions(n) == IF n = 0 THEN << >> ELSE Append(Positions(n - 1), n)

\* candidates.sort_by on the distance: a stable sort, by insertion
RECURSIVE StableSort(_)
StableSort(cands) ==
    IF cands = << >> THEN << >>
    ELSE LET n == Len(cands)
             c == cands[n]
             sorted == StableSort(SubSeq(cands, 1, n - 1))
             keep == { m \in 0..(n - 1) :
                         \A j \in 1..m : sorted[j].d <= c.d }
             at == CHOOSE m \in keep : \A j \in keep : j <= m
         IN  SubSeq(sorted, 1, at) \o <<c>> \o SubSeq(sorted, at + 1, n - 1)

\* every listing of the positions in P of cands by non-decreasing distance
RECURSIVE Listings(_, _)
Listings(cands, P) ==
    IF P = {} THEN { << >> }
    ELSE UNION { { <<p>> \o rest : rest \in Listings(cands, P \ {p}) }
                 : p \in { p \in P : \A r \in P : cands[p].d <= cands[r].d } }

\* SelectK without the selection: the first k candidates in the order the
\* traversal met them
SelectKUnsorted(cands, k) == { [n \in 1..k |-> n] }

\* select_nth_unstable_by(k - 1) followed by sort_by of the first k: the k
\* candidates may be any k of which none is farther than one left out, and
\* candidates of equal distance may come in any order
SelectK(cands, k) ==
    LET all == 1..Len(cands)
        kth == CHOOSE d \in { cands[p].d : p \in all } :
                   /\ Cardinality({ p \in all : cands[p].d < d }) < k
                   /\ Cardinality({ p \in all : cands[p].d <= d }) >= k
        nearer == { p \in all : cands[p].d < kth }
        tied == { p \in all : cands[p].d = kth }
        picks == { nearer \cup T : T \in { T \in SUBSET tied :
                                            Cardinality(T) = k - Cardinality(nearer) } }
    IN  UNION { Listings(cands, P) : P \in picks }

\* what query_in_direction_k makes of the candidates the traversal found
DirResults(candidates, k) ==
    IF Len(candidates) <= k
    THEN LET sorted == StableSort(candidates)
         IN  { PushIdx(sorted, Positions(Len(sorted))) }
    ELSE { PushIdx(candidates, l) : l \in SelectK(candidates, k) }

\* HilbertRTree::query_in_direction_k: the set of result vectors the call
\* may leave
query_in_direction_k(rect, dir, k, distance, pre) ==
    IF NotBuilt \/ distance < 0 \/ k = 0 THEN { << >> }
    ELSE IF DirLenSq(dir) <= 0 THEN { << >> }
    ELSE LET w == SweepBox(rect, dir, distance)
             candidates == DirTraverse(rect, dir, w, total_nodes - 1,
                               [cands |-> << >>, stack |-> << >>])
         IN  DirResults(candidates, k)

(***************************************************************************)
(* HilbertRTree::query_nearest_k_points and query_circle_points: the       *)
(* variants for trees of points.  A leaf (pos < num_items) is measured by  *)
(* the direct formula, from the query point to the corner (min_x, min_y)   *)
(* of its box; a parent by axis_distance as before.                        *)
(***************************************************************************)
\* PointDistSq with the y term lost
PointDistSqNoDy(x, y, b) == (x - b.min_x) * (x - b.min_x)

\* dx = point_x - child_box.min_x; dy = point_y - child_box.min_y;
\* dx * dx + dy * dy
PointDistSq(x, y, b) ==
    LET dx == x - b.min_x
        dy == y - b.min_y
    IN  dx * dx + dy * dy

\* dist_sq of a child: "if child_pos < self.num_items" the direct formula,
\* else axis_distance
ChildDistSq(x, y, pos) ==
    IF pos < num_items THEN PointDistSq(x, y, get_box(pos))
    ELSE BoxDistSq(x, y, get_box(pos))

NodeEntryPoints(x, y, pos, is_leaf) ==
    [dist_sq |-> ChildDistSq(x, y, pos), pos |-> pos, is_leaf |-> is_leaf]

RECURSIVE PushChildrenPoints(_, _, _, _, _, _, _, _)
PushChildrenPoints(x, y, k, st, child_pos, last, child_end, is_leaf) ==
    IF child_pos >= last \/ child_pos >= child_end THEN st.queue
    ELSE LET e == NodeEntryPoints(x, y, child_pos, is_leaf)
             rest == PushChildrenPoints(x, y, k, st, child_pos + 1, last,
                                        child_end, is_leaf)
         IN  IF e.dist_sq <= st.max_dist_sq \/ BagCardinality(st.heap) < k
             THEN rest (+) One(e) ELSE rest

ExpandPoints(x, y, k, st, entry) ==
    LET level == LevelOf(entry.pos)
        first_child == Shr(get_index(entry.pos), 2)
    IN  IF level > 0
        THEN LET child_level_start == level_bounds[level]
                 child_level_end == level_bounds[level]
             IN  PushChildrenPoints(x, y, k, st, first_child,
                                    first_child + node_size, child_level_end,
                                    child_level_start = num_items)
        ELSE PushChildrenPoints(x, y, k, st, first_child,
                                first_child + node_size, num_items, TRUE)

KnnVisitPoints(x, y, k, st, entry) ==
    LET popped == [st EXCEPT !.queue = @ (-) One(entry)]
    IN  IF entry.dist_sq > st.max_dist_sq
        THEN IF BagCardinality(st.heap) = k
             THEN { [popped EXCEPT !.done = TRUE] }
             ELSE { popped }
        ELSE IF entry.is_leaf THEN AddResult(k, popped, entry)
        ELSE { [popped EXCEPT !.queue = ExpandPoints(x, y, k, popped, entry)] }

KnnStepPoints(x, y, k, st) ==
    IF st.done THEN { st }
    ELSE IF st.queue = EmptyBag THEN { [st EXCEPT !.done = TRUE] }
    ELSE UNION { KnnVisitPoints(x, y, k, st, e) : e \in PopChoices(st.queue) }

RECURSIVE KnnLoopPoints(_, _, _, _)
KnnLoopPoints(x, y, k, S) ==
    IF \A st \in S : st.done THEN { st.heap : st \in S }
    ELSE KnnLoopPoints(x, y, k, UNION { KnnStepPoints(x, y, k, st) : st \in S })

\* the set of result vectors the call may leave; the root nodes are measured
\* by axis_distance
query_nearest_k_points(x, y, k, pre) ==
    IF NotBuilt \/ k = 0 THEN { << >> }
    ELSE LET root_level == Len(level_bounds) - 1
             root_start == IF root_level > 0 THEN level_bounds[root_level] ELSE 0
             root_end == level_bounds[root_level + 1]
             start == [queue |-> PushRoots(x, y, root_start, root_end),
                       heap |-> EmptyBag,
                       max_dist_sq |-> F64_INFINITY,
                       done |-> FALSE]
         IN  UNION { SortedByDist(h) : h \in KnnLoopPoints(x, y, k, {start}) }

\* for pos in node_index .. end_pos of query_circle_points;
\* acc = [cands, queue], cands the (dist_sq, index) pairs
RECURSIVE CirclePointsScanGroup(_, _, _, _, _)
CirclePointsScanGroup(c, radius_sq, pos, end_pos, acc) ==
    IF pos >= end_pos THEN acc
    ELSE LET dist_sq == ChildDistSq(c[1], c[2], pos)
             next ==
               IF ~(dist_sq <= radius_sq) THEN acc
               ELSE IF pos >= num_items
                    THEN [acc EXCEPT !.queue = Append(@, Shr(get_index(pos), 2))]
                    ELSE [acc EXCEPT !.cands =
                            Append(@, [d |-> dist_sq, idx |-> get_index(pos)])]
         IN  CirclePointsScanGroup(c, radius_sq, pos + 1, end_pos, next)

\* loop { ...; if queue.is_empty() { break }; node_index = queue.pop_front() }
RECURSIVE CirclePointsTraverse(_, _, _, _)
CirclePointsTraverse(c, radius_sq, node_index, acc) ==
    LET node_end == upper_bound(node_index)
        end_pos == Min(node_index + node_size, node_end)
        a == CirclePointsScanGroup(c, radius_sq, node_index, end_pos, acc)
    IN  IF a.queue = << >> THEN a.cands
        ELSE CirclePointsTraverse(c, radius_sq, Head(a.queue),
                                  [cands |-> a.cands, queue |-> Tail(a.queue)])

\* SortedCandidates without the sort: the candidates as the traversal met them
UnsortedCandidates(cands) == { PushIdx(cands, Positions(Len(cands))) }

\* candidates.sort_unstable_by on the distance: every listing of the
\* candidates in non-decreasing distance
SortedCandidates(cands) ==
    { PushIdx(cands, l) : l \in Listings(cands, 1..Len(cands)) }

\* HilbertRTree::query_circle_points: the set of result vectors the call
\* may leave
query_circle_points(cx, cy, radius, pre) ==
    IF NotBuilt \/ radius < 0 THEN { << >> }
    ELSE SortedCandidates(
             CirclePointsTraverse(<<cx, cy>>, radius * radius, total_nodes - 1,
                                  [cands |-> << >>, queue |-> << >>]))

(***************************************************************************)
(* HilbertRTree::len, is_empty and get.  An Option is a record:            *)
(* None is [some |-> FALSE], Some(box) is [some |-> TRUE, box |-> box].    *)
(***************************************************************************)
len == num_items
is_empty == num_items = 0

None == [some |-> FALSE]
Some(b) == [some |-> TRUE, box |-> b]

\* get that reads position item_id also after build
get_by_position(item_id) ==
    IF item_id >= num_items THEN None ELSE Some(get_box(item_id))

\* HilbertRTree::get
get(item_id) ==
    IF item_id >= num_items THEN None
    ELSE IF level_bounds = << >> THEN Some(get_box(item_id))
    ELSE LET hits == { pos \in 0..(num_items - 1) : get_index(pos) = item_id }
         IN  IF hits = {} THEN None
             ELSE Some(get_box(CHOOSE pos \in hits : \A q \in hits : pos <= q))

(***************************************************************************)
(* HilbertRTree::save and load.  The file is the sequence of what          *)
(* write_all wrote: one element per byte of the magic, the version and the *)
(* u32 fields (little endian), one element per f64 (its 8 bytes, held as   *)
(* the number they encode) and one element for the bytes of self.data.     *)
(***************************************************************************)
\* (n as u32).to_le_bytes()
U32Bytes(n) ==
    << n % 256, (n \div 256) % 256, (n \div 65536) % 256,
       (n \div 16777216) % 256 >>

\* u32::from_le_bytes(buf) as usize
FromU32Bytes(buf) ==
    buf[1] + 256 * buf[2] + 65536 * buf[3] + 16777216 * buf[4]

\* for &bound in &self.level_bounds { write (bound as u32).to_le_bytes() }
RECURSIVE LevelBoundsBytes(_)
LevelBoundsBytes(lb) ==
    IF lb = << >> THEN << >>
    ELSE U32Bytes(Head(lb)) \o LevelBoundsBytes(Tail(lb))

\* f64::to_le_bytes: 8 bytes, one element
F64Word(v) == [f64 |-> v]

\* the bytes of self.data: the header, the boxes and the indices
DataBytes ==
    [len |-> data_len, header |-> header, boxes |-> boxes, indices |-> indices]

\* the positions of the file
MagicAt == 1
VersionAt == 2
FieldsEnd == 18

\* save with total_nodes written before num_items
save_fields_swapped ==
    << 251, 1 >>
    \o U32Bytes(node_size) \o U32Bytes(total_nodes) \o U32Bytes(num_items)
    \o U32Bytes(Len(level_bounds)) \o LevelBoundsBytes(level_bounds)
    \o << F64Word(bounds.min_x), F64Word(bounds.min_y),
          F64Word(bounds.max_x), F64Word(bounds.max_y) >>
    \o U32Bytes(data_len) \o << DataBytes >>

\* what save writes
save ==
    << 251, 1 >>
    \o U32Bytes(node_size) \o U32Bytes(num_items) \o U32Bytes(total_nodes)
    \o U32Bytes(Len(level_bounds)) \o LevelBoundsBytes(level_bounds)
    \o << F64Word(bounds.min_x), F64Word(bounds.min_y),
          F64Word(bounds.max_x), F64Word(bounds.max_y) >>
    \o U32Bytes(data_len) \o << DataBytes >>

\* for _ in 0..level_bounds_len { read 4 bytes; push }
RECURSIVE ReadLevelBounds(_, _, _)
ReadLevelBounds(f, at, n) ==
    IF n = 0 THEN << >>
    ELSE <<FromU32Bytes(SubSeq(f, at, at + 3))>>
         \o ReadLevelBounds(f, at + 4, n - 1)

LoadErr(kind, read) == [ret |-> kind, read |-> read]

\* HilbertRTree::load after the version check: node_size, num_items,
\* total_nodes, level_bounds, bounds and the data
load_fields(f) ==
    IF Len(f) < FieldsEnd THEN LoadErr("UnexpectedEof", Len(f))
    ELSE LET l_node_size == FromU32Bytes(SubSeq(f, 3, 6))
             l_num_items == FromU32Bytes(SubSeq(f, 7, 10))
             l_total_nodes == FromU32Bytes(SubSeq(f, 11, 14))
             level_bounds_len == FromU32Bytes(SubSeq(f, 15, 18))
             at == FieldsEnd + 4 * level_bounds_len
         IN  IF Len(f) < at + 9 THEN LoadErr("UnexpectedEof", Len(f))
             ELSE LET l_data_len == FromU32Bytes(SubSeq(f, at + 5, at + 8))
                      data == f[at + 9]
                  IN  [ret |-> "Ok", read |-> at + 9,
                       node_size |-> l_node_size,
                       num_items |-> l_num_items,
                       total_nodes |-> l_total_nodes,
                       level_bounds |->
                           ReadLevelBounds(f, FieldsEnd + 1, level_bounds_len),
                       bounds |-> Box(f[at + 1].f64, f[at + 2].f64,
                                      f[at + 3].f64, f[at + 4].f64),
                       data_len |-> l_data_len,
                       header |-> data.header,
                       boxes |-> data.boxes,
                       indices |-> data.indices]

\* load that checks the version after the fields are read
load_checking_late(f) ==
    IF f = << >> THEN LoadErr("NotFound", 0)
    ELSE IF f[MagicAt] # 251 THEN LoadErr("InvalidData", MagicAt)
    ELSE LET out == load_fields(f)
         IN  IF out.ret = "Ok" /\ f[VersionAt] # 1
             THEN LoadErr("InvalidData", out.read)
             ELSE out

\* HilbertRTree::load: [ret, read] and, when ret = "Ok", the fields of the
\* tree; read counts the elements of the file consumed when load returns
load(f) ==
    IF f = << >> THEN LoadErr("NotFound", 0)
    ELSE IF f[MagicAt] # 251 THEN LoadErr("InvalidData", MagicAt)
    ELSE IF Len(f) < VersionAt THEN LoadErr("UnexpectedEof", Len(f))
    ELSE IF f[VersionAt] # 1 THEN LoadErr("InvalidData", VersionAt)
    ELSE load_fields(f)

(***************************************************************************)
(* The caller.  It calls one operation at a time.  A query leaves it at    *)
(* "returned" with the result vector as the call left it; Reuse takes the  *)
(* results and readies the vector for the next call, emptied or holding    *)
(* leftovers.                                                              *)
(***************************************************************************)
\* the arguments the caller passes
Windows == { Box(1, 1, 2, 2), Box(3, 3, 4, 4), Box(2, 2, 2, 2),
             Box(0, 0, 9, 9), Box(2, 1, 6, 5) }
Points == { <<2, 2>>, <<0, 0>>, <<5, 4>>, <<9, 9>> }
Radii == { -1, 0, 1, 3 }
Ks == 0..MaxK

\* what a reused vector may hold on entry
Leftover == <<1, 0, 1>>

Return(c, res, ret) ==
    /\ pc = "ready"
    /\ results' = res
    /\ call' = c @@ [pre |-> results, ret |-> ret]
    /\ pc' = "returned"
    /\ UNCHANGED <<variant, tree, hist, file, capacity, steps>>

QueryIntersecting ==
    \E w \in Windows :
        Return([op |-> "query_intersecting", w |-> w],
               query_intersecting(w, results), "Ok")

QueryIntersectingId ==
    /\ variant = "f64"
    /\ \E item_id \in 0..num_items :
        LET out == query_intersecting_id(item_id, results)
        IN  Return([op |-> "query_intersecting_id", item_id |-> item_id],
                   out.res, out.ret)

QueryPoint ==
    \E p \in Points :
        Return([op |-> "query_point", x |-> p[1], y |-> p[2]],
               query_point(p[1], p[2], results), "Ok")

QueryContain ==
    \E w \in Windows :
        Return([op |-> "query_contain", w |-> w],
               query_contain(w, results), "Ok")

QueryContainedWithin ==
    \E w \in Windows :
        Return([op |-> "query_contained_within", w |-> w],
               query_contained_within(w, results), "Ok")

QueryIntersectingK ==
    \E w \in Windows, k \in Ks :
        Return([op |-> "query_intersecting_k", w |-> w, k |-> k],
               query_intersecting_k(w, k, results), "Ok")

QueryNearestK ==
    /\ variant = "f64"
    /\ \E p \in Points, k \in Ks :
        \E res \in query_nearest_k(p[1], p[2], k, results) :
            Return([op |-> "query_nearest_k", x |-> p[1], y |-> p[2], k |-> k],
                   res, "Ok")

QueryCircle ==
    /\ variant = "f64"
    /\ \E p \in Points, radius \in Radii :
        Return([op |-> "query_circle", x |-> p[1], y |-> p[2],
                radius |-> radius],
               query_circle(p[1], p[2], radius, results), "Ok")

\* the arguments of the direction queries: the rectangle, the direction (of
\* length 1, 2, 5 and 0) and the distance
Rects == { Box(1, 1, 2, 2) }
Dirs == { <<1, 0>>, <<0, -2>>, <<3, 4>>, <<0, 0>> }
Distances == { -1, 0, 5 }

QueryInDirection ==
    /\ variant = "f64"
    /\ \E rect \in Rects, dir \in Dirs, distance \in Distances :
        Return([op |-> "query_in_direction", rect |-> rect, dir |-> dir,
                distance |-> distance],
               query_in_direction(rect, dir, distance, results), "Ok")

QueryInDirectionK ==
    /\ variant = "f64"
    /\ \E rect \in Rects, dir \in Dirs, distance \in Distances, k \in Ks :
        \E res \in query_in_direction_k(rect, dir, k, distance, results) :
            Return([op |-> "query_in_direction_k", rect |-> rect, dir |-> dir,
                    distance |-> distance, k |-> k],
                   res, "Ok")

Reuse ==
    /\ pc = "returned"
    /\ pc' = "ready"
    /\ results' \in { << >>, Leftover }
    /\ call' = NoCall
    /\ UNCHANGED <<variant, tree, hist, file, capacity, steps>>

Query ==
    \/ QueryIntersecting
    \/ QueryIntersectingId
    \/ QueryPoint
    \/ QueryContain
    \/ QueryContainedWithin
    \/ QueryIntersectingK
    \/ QueryNearestK
    \/ QueryCircle

(***************************************************************************)
(* Spec: the index used as its lifecycle prescribes (Empty, Accumulating,  *)
(* Built): add calls, then one build, and queries at any time.             *)
(***************************************************************************)
Add ==
    /\ pc = "ready"
    /\ level_bounds = << >>
    /\ num_items < MaxItems
    /\ \E b \in AddChoices(num_items) : add(b)

Build ==
    /\ pc = "ready"
    /\ level_bounds = << >>
    /\ build

Next == Add \/ Build \/ Query \/ Reuse

Spec == Init /\ [][Next]_vars

(***************************************************************************)
(* SpecDirection: the same lifecycle, with the direction queries of the    *)
(* f64 tree.                                                               *)
(***************************************************************************)
NextDirection == Add \/ Build \/ QueryInDirection \/ QueryInDirectionK \/ Reuse

SpecDirection == Init /\ [][NextDirection]_vars

(***************************************************************************)
(* SpecExample: the tree of the documentation example of                   *)
(* query_in_direction_k, boxes 0 .. 3 added in this order and built, and   *)
(* direction queries from the rectangle (0, 0, 1, 1) of the example.       *)
(***************************************************************************)
ExampleBoxes == << Box(0, 0, 1, 1), Box(2, 0, 3, 1), Box(4, 0, 5, 1),
                   Box(6, 6, 7, 7) >>
ExampleRect == Box(0, 0, 1, 1)
ExampleDistances == { -1, 0, 3, 10 }

AddExample ==
    /\ pc = "ready"
    /\ level_bounds = << >>
    /\ num_items < Len(ExampleBoxes)
    /\ add(ExampleBoxes[num_items + 1])

QueryExampleK ==
    /\ variant = "f64"
    /\ \E dir \in Dirs, distance \in ExampleDistances, k \in Ks :
        \E res \in query_in_direction_k(ExampleRect, dir, k, distance, results) :
            Return([op |-> "query_in_direction_k", rect |-> ExampleRect,
                    dir |-> dir, distance |-> distance, k |-> k],
                   res, "Ok")

NextExample == AddExample \/ Build \/ QueryExampleK \/ Reuse

SpecExample == Init /\ [][NextExample]_vars

(***************************************************************************)
(* SpecPoints: trees of points, as add_point builds them, or of points and *)
(* one box, with the queries for point data.                               *)
(***************************************************************************)
\* the point add_point(x, y) stores: add(x, y, x, y)
PointBox(x, y) == Box(x, y, x, y)

\* what add call n may pass: a point (the corner of the box of Feed, the
\* first two calls also the point (2, 2), so that two items may be the same
\* point) or, as the second call, a box that is not a point
PointChoices(n) ==
    IF n = 0 THEN { PointBox(2, 2), PointBox(0, 0) }
    ELSE IF n = 1
         THEN { PointBox(Feed(n).min_x, Feed(n).min_y), PointBox(2, 2),
                Box(1, 1, 3, 3) }
         ELSE { PointBox(Feed(n).min_x, Feed(n).min_y) }

AddPoint ==
    /\ pc = "ready"
    /\ variant = "f64"
    /\ level_bounds = << >>
    /\ num_items < MaxItems
    /\ \E b \in PointChoices(num_items) : add(b)

QueryNearestKPoints ==
    /\ variant = "f64"
    /\ \E p \in Points, k \in Ks :
        \E res \in query_nearest_k_points(p[1], p[2], k, results) :
            Return([op |-> "query_nearest_k_points", x |-> p[1], y |-> p[2],
                    k |-> k],
                   res, "Ok")

QueryCirclePoints ==
    /\ variant = "f64"
    /\ \E p \in Points, radius \in Radii :
        \E res \in query_circle_points(p[1], p[2], radius, results) :
            Return([op |-> "query_circle_points", x |-> p[1], y |-> p[2],
                    radius |-> radius],
                   res, "Ok")

NextPoints ==
    AddPoint \/ Build \/ QueryNearestKPoints \/ QueryCirclePoints \/ Reuse

SpecPoints == Init /\ [][NextPoints]_vars

(***************************************************************************)
(* SpecStore: the lifecycle with get, and with save and load of the f64    *)
(* tree.  Save writes the file of a built tree; Tamper is the file changed *)
(* or cut short on disk; Load reads the file and, when it succeeds, the    *)
(* caller goes on with the tree it returns.                                *)
(***************************************************************************)
Get ==
    /\ variant = "f64"
    /\ \E item_id \in 0..(num_items + 1) :
        Return([op |-> "get", item_id |-> item_id], results, get(item_id))

Save ==
    /\ pc = "ready"
    /\ variant = "f64"
    /\ level_bounds # << >>
    /\ file' = save
    /\ call' = [op |-> "save", pre |-> results, ret |-> "Ok"]
    /\ pc' = "returned"
    /\ UNCHANGED <<variant, tree, results, hist, capacity, steps>>

\* the bytes a changed file may hold in place of the magic and the version
\* (4: the type number of i32), and the lengths a cut file may have
BadMagics == { 0 }
BadVersions == { 0, 4 }
CutLengths(f) == { MagicAt, VersionAt, Len(f) - 1 }

Tamper ==
    /\ pc = "ready"
    /\ file # << >>
    /\ \/ \E m \in BadMagics : file' = [file EXCEPT ![MagicAt] = m]
       \/ /\ Len(file) >= VersionAt
          /\ \E v \in BadVersions : file' = [file EXCEPT ![VersionAt] = v]
       \/ \E n \in CutLengths(file) :
            /\ n < Len(file)
            /\ file' = SubSeq(file, 1, n)
    /\ UNCHANGED <<variant, tree, results, call, pc, hist, capacity, steps>>

\* what the tree answers to every query, len and get, with the arguments
\* the caller passes
Answers ==
    [len |-> len,
     is_empty |-> is_empty,
     get |-> [i \in 0..(num_items + 1) |-> get(i)],
     query_intersecting_id |->
         [i \in 0..(num_items + 1) |-> query_intersecting_id(i, << >>)],
     query_intersecting |-> [w \in Windows |-> query_intersecting(w, << >>)],
     query_contain |-> [w \in Windows |-> query_contain(w, << >>)],
     query_contained_within |->
         [w \in Windows |-> query_contained_within(w, << >>)],
     query_intersecting_k |->
         [w \in Windows, k \in Ks |-> query_intersecting_k(w, k, << >>)],
     query_point |-> [p \in Points |-> query_point(p[1], p[2], << >>)],
     query_nearest_k |->
         [p \in Points, k \in Ks |-> query_nearest_k(p[1], p[2], k, << >>)],
     query_nearest_k_points |->
         [p \in Points, k \in Ks |->
             query_nearest_k_points(p[1], p[2], k, << >>)],
     query_circle |->
         [p \in Points, r \in Radii |-> query_circle(p[1], p[2], r, << >>)],
     query_circle_points |->
         [p \in Points, r \in Radii |->
             query_circle_points(p[1], p[2], r, << >>)],
     query_in_direction |->
         [rect \in Rects, dir \in Dirs, distance \in Distances |->
             query_in_direction(rect, dir, distance, << >>)],
     query_in_direction_k |->
         [rect \in Rects, dir \in Dirs, distance \in Distances, k \in Ks |->
             query_in_direction_k(rect, dir, k, distance, << >>)]]

\* a call of load; c is what the caller notes of the call besides its outcome
LoadCall(c) ==
    /\ pc = "ready"
    /\ variant = "f64"
    /\ LET out == load(file)
       IN  /\ IF out.ret = "Ok"
              THEN /\ boxes' = out.boxes
                   /\ indices' = out.indices
                   /\ data_len' = out.data_len
                   /\ header' = out.header
                   /\ level_bounds' = out.level_bounds
                   /\ node_size' = out.node_size
                   /\ num_items' = out.num_items
                   /\ total_nodes' = out.total_nodes
                   /\ bounds' = out.bounds
                   /\ capacity' = out.data_len
              ELSE UNCHANGED <<tree, capacity>>
           /\ call' = c @@ [pre |-> results, ret |-> out.ret,
                            read |-> out.read, from |-> file]
    /\ pc' = "returned"
    /\ UNCHANGED <<variant, results, hist, file, steps>>

Load == LoadCall([op |-> "load"])

NextStore == Add \/ Build \/ Get \/ Save \/ Tamper \/ Load \/ Reuse

SpecStore == Init /\ [][NextStore]_vars

(***************************************************************************)
(* SpecRoundTrip: a tree is built and saved, and the file is loaded as     *)
(* save wrote it.  The caller notes the tree it holds when it calls load   *)
(* and what that tree answers.                                             *)
(***************************************************************************)
LoadSaved ==
    LoadCall([op |-> "load", saved |-> tree, answers |-> Answers])

NextRoundTrip == Add \/ Build \/ Save \/ LoadSaved \/ Reuse

SpecRoundTrip == Init /\ [][NextRoundTrip]_vars

(***************************************************************************)
(* SpecRebuild: the lifecycle, and build called again on the built tree    *)
(* with no add in between.  Before it calls build again the caller notes   *)
(* the tree and the ids the tree answers.                                  *)
(***************************************************************************)
\* most build calls on one tree
MaxBuilds == 2

\* the ids of a result vector
IdSet(res) == { res[n] : n \in 1..Len(res) }

\* the ids the tree answers to every query, and the box get answers for
\* every id, with the arguments the caller passes; the queries only the f64
\* tree has are left out for the i32 tree
AnswerIds ==
    [query_intersecting |->
         [w \in Windows |-> IdSet(query_intersecting(w, << >>))],
     query_point |->
         [p \in Points |-> IdSet(query_point(p[1], p[2], << >>))],
     query_contain |-> [w \in Windows |-> IdSet(query_contain(w, << >>))],
     query_contained_within |->
         [w \in Windows |-> IdSet(query_contained_within(w, << >>))],
     query_intersecting_k |->
         [w \in Windows, k \in Ks |-> IdSet(query_intersecting_k(w, k, << >>))],
     only_f64 |->
         IF variant # "f64" THEN << >>
         ELSE [get |-> [i \in 0..(num_items + 1) |-> get(i)],
               query_intersecting_id |->
                   [i \in 0..(num_items - 1) |->
                       IdSet(query_intersecting_id(i, << >>).res)],
               query_circle |->
                   [p \in Points, r \in Radii |->
                       IdSet(query_circle(p[1], p[2], r, << >>))],
               query_nearest_k |->
                   [p \in Points, k \in Ks |->
                       { IdSet(res) : res \in query_nearest_k(p[1], p[2], k, << >>) }],
               query_in_direction |->
                   [rect \in Rects, dir \in Dirs, distance \in Distances |->
                       IdSet(query_in_direction(rect, dir, distance, << >>))]]]

NoteAnswers ==
    /\ pc = "ready"
    /\ level_bounds # << >>
    /\ call.op # "note"
    /\ call' = [op |-> "note", tree |-> tree, answers |-> AnswerIds]
    /\ UNCHANGED <<variant, tree, results, pc, hist, file, capacity, steps>>

BuildAgain ==
    /\ pc = "ready"
    /\ level_bounds # << >>
    /\ call.op = "note"
    /\ builds < MaxBuilds
    /\ build

NextRebuild == Add \/ Build \/ NoteAnswers \/ BuildAgain

SpecRebuild == Init /\ [][NextRebuild]_vars

(***************************************************************************)
(* SpecTwoTrees: the caller fills and builds one tree, notes what it       *)
(* answers, and then fills and builds a second tree, f64 or i32, from the  *)
(* same boxes in the same or in another order.                             *)
(***************************************************************************)
\* the boxes the trees are filled from, numbered from 0: two boxes that
\* overlap, then the boxes of Feed
Stock(n) ==
    IF n = 0 THEN Box(0, 0, 2, 2)
    ELSE IF n = 1 THEN Box(1, 1, 3, 3)
    ELSE Feed(n)

\* the orders of insertion: as numbered; each pair exchanged; the first
\* three rotated
InsertionOrders == { "numbered", "pairs", "rotated" }

NumberAt(order, n) ==
    IF order = "pairs" THEN (IF n % 2 = 0 THEN n + 1 ELSE n - 1)
    ELSE IF order = "rotated" /\ n < 3 THEN (n + 2) % 3
    ELSE n

\* the orders a tree that holds the boxes a may be going on with
OrdersOf(a) ==
    { o \in InsertionOrders :
        \A n \in 0..(Len(a) - 1) : a[n + 1] = Stock(NumberAt(o, n)) }

AddInOrder ==
    /\ pc = "ready"
    /\ level_bounds = << >>
    /\ num_items < MaxItems
    /\ call.op = "note" => num_items < Len(call.added)
    /\ \E o \in OrdersOf(added) : add(Stock(NumberAt(o, num_items)))

\* the boxes the ids of a result vector denote, as a bag
RECURSIVE BoxBag(_)
BoxBag(res) ==
    IF res = << >> THEN EmptyBag
    ELSE BoxBag(Tail(res)) (+) One(added[Head(res) + 1])

\* what a reused vector may hold on entry
Pres == { << >>, Leftover }

\* the result vectors of the operations both trees have, for a vector that
\* holds pre on entry
SharedAnswers(pre) ==
    [query_intersecting |-> [w \in Windows |-> query_intersecting(w, pre)],
     query_point |-> [p \in Points |-> query_point(p[1], p[2], pre)],
     query_contain |-> [w \in Windows |-> query_contain(w, pre)],
     query_contained_within |->
         [w \in Windows |-> query_contained_within(w, pre)],
     query_intersecting_k |->
         [w \in Windows, k \in Ks |-> query_intersecting_k(w, k, pre)]]

\* the boxes a built tree answers to the queries that take coordinates:
\* the queries that yield every match, and the K-bounded queries (for a
\* query with more than one possible outcome, the boxes of each outcome)
AnswerBoxes ==
    [every |->
        [query_intersecting |->
             [w \in Windows |-> BoxBag(query_intersecting(w, << >>))],
         query_point |->
             [p \in Points |-> BoxBag(query_point(p[1], p[2], << >>))],
         query_contain |-> [w \in Windows |-> BoxBag(query_contain(w, << >>))],
         query_contained_within |->
             [w \in Windows |-> BoxBag(query_contained_within(w, << >>))],
         only_f64 |->
             IF variant # "f64" THEN << >>
             ELSE [query_circle |->
                       [p \in Points, r \in Radii |->
                           BoxBag(query_circle(p[1], p[2], r, << >>))],
                   query_in_direction |->
                       [rect \in Rects, dir \in Dirs, distance \in Distances |->
                           BoxBag(query_in_direction(rect, dir, distance, << >>))]]],
     k_bounded |->
        [query_intersecting_k |->
             [w \in Windows, k \in Ks |->
                 { BoxBag(query_intersecting_k(w, k, << >>)) }],
         only_f64 |->
             IF variant # "f64" THEN << >>
             ELSE [query_nearest_k |->
                       [p \in Points, k \in Ks |->
                           { BoxBag(res) :
                               res \in query_nearest_k(p[1], p[2], k, << >>) }],
                   query_in_direction_k |->
                       [rect \in Rects, dir \in Dirs, distance \in Distances,
                        k \in Ks |->
                           { BoxBag(res) :
                               res \in query_in_direction_k(rect, dir, k,
                                                            distance, << >>) }]]]]

\* the caller notes the tree's kind, boxes and answers, drops the tree and
\* constructs the second one
NoteAndRenew ==
    /\ pc = "ready"
    /\ call.op # "note"
    /\ num_items > 0
    /\ call' = [op |-> "note", variant |-> variant, added |-> added,
                built |-> level_bounds # << >>,
                shared |-> [pre \in Pres |-> SharedAnswers(pre)],
                boxes |-> IF level_bounds # << >> THEN AnswerBoxes ELSE << >>]
    /\ variant' \in { "f64", "i32" }
    /\ boxes' = << >>
    /\ indices' = << >>
    /\ data_len' = 0
    /\ header' = << >>
    /\ level_bounds' = << >>
    /\ node_size' = DEFAULT_NODE_SIZE
    /\ num_items' = 0
    /\ total_nodes' = 0
    /\ bounds' = IF variant' = "f64"
                 THEN Box(F64_INFINITY, F64_INFINITY, -F64_INFINITY, -F64_INFINITY)
                 ELSE Box(I32_MAX, I32_MAX, I32_MIN, I32_MIN)
    /\ added' = << >>
    /\ builds' = 0
    /\ capacity' = 0
    /\ UNCHANGED <<results, pc, file, steps>>

NextTwoTrees == AddInOrder \/ Build \/ NoteAndRenew

SpecTwoTrees == Init /\ [][NextTwoTrees]_vars

(***************************************************************************)
(* SpecWide: an i32 tree that may hold boxes at i32::MIN and at i32::MAX.  *)
(* The build is followed with and without overflow checks.                 *)
(***************************************************************************)
MinCornerBox == Box(I32_MIN, 0, I32_MIN + 100, 1)
MaxCornerBox == Box(I32_MAX - 100, 0, I32_MAX, 1)

\* the boxes add call n may pass: first a box at i32::MIN or a small box,
\* then, after the box at i32::MIN, a box at i32::MAX or a small box, then
\* the boxes of Feed
WideChoices(n) ==
    IF n = 0 THEN { MinCornerBox, Box(0, 0, 2, 2) }
    ELSE IF n = 1 /\ added[1] = MinCornerBox THEN { MaxCornerBox, Feed(n) }
    ELSE { Feed(n) }

\* the windows the caller passes to the i32 tree
WideWindows == { Box(I32_MIN, 0, I32_MIN + 50, 1), Box(0, 0, I32_MAX, 9),
                 Box(1, 1, 2, 2) }

AddWide ==
    /\ pc = "ready"
    /\ variant = "i32"
    /\ level_bounds = << >>
    /\ num_items < MaxItems
    /\ \E b \in WideChoices(num_items) : add(b)

BuildChecked ==
    /\ pc = "ready"
    /\ level_bounds = << >>
    /\ build_overflows
    /\ build_panics

QueryWide ==
    /\ variant = "i32"
    /\ \E w \in WideWindows :
        Return([op |-> "query_intersecting", w |-> w],
               query_intersecting(w, results), "Ok")

NextWide == AddWide \/ Build \/ BuildChecked \/ QueryWide \/ Reuse

SpecWide == Init /\ [][NextWide]_vars

(***************************************************************************)
(* SpecMisuse: the index used against its lifecycle as well.  add and      *)
(* build are called in any order, and every read of the buffer that get    *)
(* and the traversals make is noted with its address and its width.        *)
(***************************************************************************)
\* the add calls made after a build, at most
MaxLate == 3

\* the address of the box and of the index at pos
BoxAt(pos) == HEADER_SIZE + pos * size_of_box
IndexAt(pos) == HEADER_SIZE + total_nodes * size_of_box + pos * SIZE_OF_U32

\* a call that notes its reads: the results and the queue of the traversal,
\* the reads made, whether an index expression panicked, and whether a box
\* was read where the buffer holds none
NoLog == [res |-> << >>, queue |-> << >>, reads |-> {}, panicked |-> FALSE,
          stray |-> FALSE]

\* ReadChecked without the index expression
ReadNotChecked(log, at, bytes) ==
    IF log.panicked THEN log
    ELSE [log EXCEPT !.reads = @ \cup { [at |-> at, bytes |-> bytes] }]

\* read_unaligned(&self.data[at] as *const T): the index expression panics
\* when at is outside the length, then size_of::<T>() bytes are read
ReadChecked(log, at, bytes) ==
    IF log.panicked THEN log
    ELSE IF at >= data_len THEN [log EXCEPT !.panicked = TRUE]
    ELSE [log EXCEPT !.reads = @ \cup { [at |-> at, bytes |-> bytes] }]

\* read_unaligned(self.data.as_ptr().add(at) as *const T): no check
ReadRaw(log, at, bytes) ==
    IF log.panicked THEN log
    ELSE [log EXCEPT !.reads = @ \cup { [at |-> at, bytes |-> bytes] }]

\* get_box(pos), noted
LogBox(log, pos) ==
    LET l == ReadChecked(log, BoxAt(pos), size_of_box)
    IN  IF ~l.panicked /\ pos >= Len(boxes) THEN [l EXCEPT !.stray = TRUE]
        ELSE l

\* get_index(pos), noted
LogIndex(log, pos) == ReadChecked(log, IndexAt(pos), SIZE_OF_U32)

\* the box a read at pos yields
BoxRead(pos) == IF pos < Len(boxes) THEN get_box(pos) ELSE ZeroBox

\* HilbertRTree::query_intersecting reads the boxes of a group four at a
\* time with get_boxes_batch while pos + 4 <= end_pos, the rest one by one
BatchStart(node_index, pos) == node_index + 4 * ((pos - node_index) \div 4)
InBatch(kind, node_index, pos, end_pos) ==
    /\ variant = "f64"
    /\ kind = "query_intersecting"
    /\ BatchStart(node_index, pos) + 4 <= end_pos

\* ScanGroup, noting the reads
RECURSIVE LogScanGroup(_, _, _, _, _, _)
LogScanGroup(kind, q, node_index, pos, end_pos, log) ==
    IF pos >= end_pos \/ log.panicked \/ KReached(kind, q, log.res) THEN log
    ELSE LET is_parent == IsParent(kind, node_index, pos)
             boxed ==
               IF InBatch(kind, node_index, pos, end_pos)
               THEN IF pos = BatchStart(node_index, pos)
                    THEN ReadRaw(log, BoxAt(pos), 4 * size_of_box)
                    ELSE log
               ELSE LogBox(log, pos)
             next ==
               IF boxed.panicked THEN boxed
               ELSE IF ~NodeTest(kind, q, BoxRead(pos), is_parent) THEN boxed
               ELSE LET l == LogIndex(boxed, pos)
                    IN  IF l.panicked THEN l
                        ELSE IF is_parent
                        THEN [l EXCEPT !.queue = Append(@, Shr(get_index(pos), 2))]
                        ELSE [l EXCEPT !.res = Append(@, get_index(pos))]
         IN  LogScanGroup(kind, q, node_index, pos + 1, end_pos, next)

\* Traverse, noting the reads
RECURSIVE LogTraverse(_, _, _, _)
LogTraverse(kind, q, node_index, log) ==
    IF log.panicked \/ KReached(kind, q, log.res) THEN log
    ELSE LET node_end == upper_bound(node_index)
             end_pos == Min(node_index + node_size, node_end)
             a == LogScanGroup(kind, q, node_index, node_index, end_pos, log)
         IN  IF a.panicked \/ a.queue = << >> THEN a
             ELSE LogTraverse(kind, q, Head(a.queue),
                              [a EXCEPT !.queue = Tail(@)])

\* FlatScan, noting the reads
RECURSIVE LogFlatScan(_, _, _)
LogFlatScan(w, pos, log) ==
    IF pos >= num_items \/ log.panicked THEN log
    ELSE LET boxed == LogBox(log, pos)
             next ==
               IF boxed.panicked THEN boxed
               ELSE IF ~FlatScanTest(w, BoxRead(pos)) THEN boxed
               ELSE LET l == LogIndex(boxed, pos)
                    IN  IF l.panicked THEN l
                        ELSE [l EXCEPT !.res = Append(@, get_index(pos))]
         IN  LogFlatScan(w, pos + 1, next)

\* the queries that go from the root, noting the reads; pre is what the
\* result vector held on entry
LogQuery(kind, q, pre) ==
    IF NotBuilt
    THEN [NoLog EXCEPT !.res =
             IF variant = "i32" /\ kind # "query_intersecting_k" THEN pre
             ELSE << >>]
    ELSE IF kind = "query_intersecting_k" /\ q.k = 0 THEN NoLog
    ELSE IF kind = "query_circle" /\ q.radius < 0 THEN NoLog
    ELSE IF variant = "f64" /\ kind = "query_intersecting" /\ CoversHalf(q.w)
    THEN LogFlatScan(q.w, 0, NoLog)
    ELSE LogTraverse(kind, q, total_nodes - 1, NoLog)

\* the loop of HilbertRTree::get over the leaf positions, noting the reads;
\* the box found is noted in res
RECURSIVE LogGetLoop(_, _, _)
LogGetLoop(item_id, pos, log) ==
    IF pos >= num_items \/ log.panicked THEN log
    ELSE LET l == LogIndex(log, pos)
         IN  IF l.panicked THEN l
             ELSE IF get_index(pos) = item_id
             THEN LET boxed == LogBox(l, pos)
                  IN  IF boxed.panicked THEN boxed
                      ELSE [boxed EXCEPT !.res = <<BoxRead(pos)>>]
             ELSE LogGetLoop(item_id, pos + 1, l)

\* HilbertRTree::get, noting the reads
LogGet(item_id) ==
    IF item_id >= num_items THEN NoLog
    ELSE IF level_bounds = << >>
    THEN LET boxed == LogBox(NoLog, item_id)
         IN  IF boxed.panicked THEN boxed
             ELSE [boxed EXCEPT !.res = <<BoxRead(item_id)>>]
    ELSE LogGetLoop(item_id, 0, NoLog)

\* the boxes add call n may pass
MisuseChoices(n) == IF n = 1 THEN { Feed(n), Box(1, 1, 3, 3) } ELSE { Feed(n) }

\* the adds made since the last build found items
LateAdds == IF level_bounds = << >> THEN 0 ELSE num_items - level_bounds[1]

AddAnyTime ==
    /\ pc = "ready"
    /\ num_items < MaxItems
    /\ LateAdds < MaxLate
    /\ \E b \in MisuseChoices(num_items) : add(b)

BuildAnyTime ==
    /\ pc = "ready"
    /\ builds < MaxBuilds
    /\ num_items > 0
    /\ build

\* a call has come back, or has panicked and the caller has caught it
LogReturn(c, log) ==
    /\ pc = "ready"
    /\ results' = IF log.panicked THEN results ELSE log.res
    /\ call' = c @@ [pre |-> results, reads |-> log.reads,
                     stray |-> log.stray,
                     ret |-> IF log.panicked THEN "panic" ELSE "Ok"]
    /\ pc' = "returned"
    /\ UNCHANGED <<variant, tree, hist, file, capacity, steps>>

\* the windows, the circles and the item ids the caller passes
MisuseWindows == { Box(1, 1, 2, 2), Box(0, 0, 9, 9) }
MisuseCircles == { [x |-> 2, y |-> 2, radius |-> 1] }
MisuseIds == { 0, 5 }

QueryLogged ==
    \/ \E kind \in {"query_intersecting", "query_contain",
                    "query_contained_within"}, w \in MisuseWindows :
           LogReturn([op |-> kind, w |-> w], LogQuery(kind, [w |-> w], results))
    \/ \E w \in MisuseWindows :
           LogReturn([op |-> "query_intersecting_k", w |-> w, k |-> MaxK],
                     LogQuery("query_intersecting_k", [w |-> w, k |-> MaxK],
                              results))
    \/ LogReturn([op |-> "query_point", x |-> 2, y |-> 2],
                 LogQuery("query_point", [x |-> 2, y |-> 2], results))
    \/ /\ variant = "f64"
       /\ \E c \in MisuseCircles :
           LogReturn([op |-> "query_circle", c |-> c],
                     LogQuery("query_circle", c, results))

GetLogged ==
    /\ variant = "f64"
    /\ \E item_id \in MisuseIds :
           LogReturn([op |-> "get", item_id |-> item_id], LogGet(item_id))

NextMisuse == AddAnyTime \/ BuildAnyTime \/ QueryLogged \/ GetLogged \/ Reuse

SpecMisuse == Init /\ [][NextMisuse]_vars

(***************************************************************************)
(* Queries, one turn of the loop at a time.  A query borrows the tree      *)
(* (&self); its node position, queue, stack or heaps and its result vector *)
(* are locals of the call or belong to the caller.  run[r] holds them for  *)
(* reader r, with seen, the bag of the node positions the call started     *)
(* from or has put on its queue, stack or heap so far.                     *)
(***************************************************************************)
\* the queries that hold a queue of node positions
QueueKinds == { "query_intersecting", "query_point", "query_contain",
                "query_contained_within", "query_intersecting_k",
                "query_circle", "query_in_direction" }

\* the queries HilbertRTreeI32 has
I32Kinds == { "query_intersecting", "query_point", "query_contain",
              "query_contained_within", "query_intersecting_k" }

\* the calls a reader makes
ReaderCalls ==
    { [kind |-> "query_intersecting", q |-> [w |-> Box(1, 1, 2, 2)]],
      [kind |-> "query_intersecting", q |-> [w |-> Box(0, 0, 9, 9)]],
      [kind |-> "query_point", q |-> [x |-> 2, y |-> 2]],
      [kind |-> "query_contain", q |-> [w |-> Box(2, 2, 2, 2)]],
      [kind |-> "query_contained_within", q |-> [w |-> Box(0, 0, 9, 9)]],
      [kind |-> "query_intersecting_k",
       q |-> [w |-> Box(0, 0, 9, 9), k |-> MaxK]],
      [kind |-> "query_circle", q |-> [x |-> 2, y |-> 2, radius |-> 3]],
      [kind |-> "query_in_direction",
       q |-> [rect |-> Box(1, 1, 2, 2), dir |-> <<1, 0>>, distance |-> 5,
              w |-> SweepBox(Box(1, 1, 2, 2), <<1, 0>>, 5)]],
      [kind |-> "query_in_direction_k",
       q |-> [rect |-> Box(1, 1, 2, 2), dir |-> <<1, 0>>, distance |-> 5,
              k |-> MaxK, w |-> SweepBox(Box(1, 1, 2, 2), <<1, 0>>, 5)]],
      [kind |-> "query_nearest_k", q |-> [x |-> 2, y |-> 2, k |-> MaxK]] }

\* the bag of the positions in a sequence
RECURSIVE PositionBag(_)
PositionBag(seq) ==
    IF seq = << >> THEN EmptyBag
    ELSE One(Head(seq)) (+) PositionBag(Tail(seq))

\* the bag of the positions of the entries in a bag of NodeEntry
RECURSIVE EntryPositions(_, _)
EntryPositions(B, E) ==
    IF E = {} THEN EmptyBag
    ELSE LET e == CHOOSE e \in E : TRUE
         IN  [p \in {e.pos} |-> CopiesIn(e, B)] (+) EntryPositions(B, E \ {e})

\* the locals of a call before the first turn of its loop
Started(c) ==
    IF c.kind = "query_nearest_k"
    THEN LET st == KnnStart(c.q.x, c.q.y)
         IN  [at |-> "running", kind |-> c.kind, q |-> c.q, st |-> st,
              seen |-> EntryPositions(st.queue, BagToSet(st.queue))]
    ELSE IF c.kind = "query_in_direction_k"
    THEN [at |-> "running", kind |-> c.kind, q |-> c.q,
          node_index |-> total_nodes - 1, cands |-> << >>, stack |-> << >>,
          seen |-> One(total_nodes - 1)]
    ELSE [at |-> "running", kind |-> c.kind, q |-> c.q,
          node_index |-> total_nodes - 1, res |-> << >>, queue |-> << >>,
          seen |-> One(total_nodes - 1)]

\* the call has returned and left out in the caller's vector
Done(rec, out) ==
    [at |-> "done", kind |-> rec.kind, q |-> rec.q, out |-> out,
     seen |-> rec.seen]

\* the sequence s without its first n elements
Drop(s, n) == SubSeq(s, n + 1, Len(s))

\* one turn of the loop of Traverse
TurnQueue(rec) ==
    IF variant = "f64" /\ rec.kind = "query_intersecting" /\ CoversHalf(rec.q.w)
    THEN Done(rec, FlatScan(rec.q.w, 0, << >>))
    ELSE IF KReached(rec.kind, rec.q, rec.res) THEN Done(rec, rec.res)
    ELSE LET node_end == upper_bound(rec.node_index)
             end_pos == Min(rec.node_index + node_size, node_end)
             a == ScanGroup(rec.kind, rec.q, rec.node_index, rec.node_index,
                            end_pos, [res |-> rec.res, queue |-> rec.queue])
             seen == rec.seen (+) PositionBag(Drop(a.queue, Len(rec.queue)))
         IN  IF a.queue = << >> THEN Done([rec EXCEPT !.seen = seen], a.res)
             ELSE [rec EXCEPT !.node_index = Head(a.queue),
                              !.queue = Tail(a.queue),
                              !.res = a.res,
                              !.seen = seen]

\* one turn of the loop of DirTraverse; when the stack is empty the
\* candidates are sorted or selected
TurnStack(rec) ==
    LET node_end == upper_bound(rec.node_index)
        end_pos == Min(rec.node_index + node_size, node_end)
        a == DirScanGroup(rec.q.rect, rec.q.dir, rec.q.w, rec.node_index,
                          end_pos, [cands |-> rec.cands, stack |-> rec.stack])
        n == Len(a.stack)
        seen == rec.seen (+) PositionBag(Drop(a.stack, Len(rec.stack)))
    IN  IF n = 0
        THEN { Done([rec EXCEPT !.seen = seen], out)
               : out \in DirResults(a.cands, rec.q.k) }
        ELSE { [rec EXCEPT !.node_index = a.stack[n],
                           !.stack = SubSeq(a.stack, 1, n - 1),
                           !.cands = a.cands,
                           !.seen = seen] }

\* one turn of "while let Some(entry) = queue.pop()", then the results
TurnHeap(rec) ==
    IF rec.st.done \/ rec.st.queue = EmptyBag
    THEN { Done(rec, out) : out \in SortedByDist(rec.st.heap) }
    ELSE UNION {
           { LET pushed == st.queue (-) (rec.st.queue (-) One(e))
             IN  [rec EXCEPT !.st = st,
                             !.seen = @ (+) EntryPositions(pushed,
                                                           BagToSet(pushed))]
             : st \in KnnVisit(rec.q.x, rec.q.y, rec.q.k, rec.st, e) }
           : e \in PopChoices(rec.st.queue) }

\* the records one turn may lead to
Turns(rec) ==
    IF rec.kind = "query_nearest_k" THEN TurnHeap(rec)
    ELSE IF rec.kind = "query_in_direction_k" THEN TurnStack(rec)
    ELSE { TurnQueue(rec) }

\* Own with one result vector for all readers: what the first reader has
\* found so far is in the vector of every reader
OwnShared(r) ==
    IF /\ run[1].at = "running"
       /\ "res" \in DOMAIN run[1]
       /\ "res" \in DOMAIN run[r]
    THEN [run[r] EXCEPT !.res = run[1].res]
    ELSE run[r]

\* the locals reader r sees: its own
Own(r) == run[r]

Begin(r) ==
    /\ pc = "ready"
    /\ sort = NoSort
    /\ ~NotBuilt
    /\ run[r] = Idle
    /\ \E c \in ReaderCalls :
         /\ variant = "i32" => c.kind \in I32Kinds
         /\ run' = [run EXCEPT ![r] = Started(c)]
    /\ UNCHANGED <<variant, tree, results, call, pc, hist, file, capacity,
                   sort>>

Turn(r) ==
    /\ run[r].at = "running"
    /\ \E rec \in Turns(Own(r)) : run' = [run EXCEPT ![r] = rec]
    /\ UNCHANGED <<variant, tree, results, call, pc, hist, file, capacity,
                   sort>>

\* the caller takes the results; the reader is free for the next call
Collect(r) ==
    /\ run[r].at = "done"
    /\ run' = [run EXCEPT ![r] = Idle]
    /\ UNCHANGED <<variant, tree, results, call, pc, hist, file, capacity,
                   sort>>

NoReader == \A r \in Readers : run[r] = Idle

(***************************************************************************)
(* SpecReaders: add and build by the one owner, then two readers share the *)
(* built tree, each in a query of its own, their turns in any order, and   *)
(* save may be called in between.                                          *)
(***************************************************************************)
AddOwned ==
    /\ pc = "ready"
    /\ NoReader
    /\ level_bounds = << >>
    /\ num_items < MaxItems
    /\ add(Feed(num_items))

BuildOwned ==
    /\ pc = "ready"
    /\ NoReader
    /\ level_bounds = << >>
    /\ build

\* save through a shared reference, while queries are in progress
SaveShared ==
    /\ variant = "f64"
    /\ ~NotBuilt
    /\ file' = save
    /\ UNCHANGED <<variant, tree, results, call, pc, hist, capacity, steps>>

FirstReader == Begin(1) \/ Turn(1) \/ Collect(1)

\* the second reader is one that starts while the first is in a query
SecondReader == (run[1] # Idle /\ Begin(2)) \/ Turn(2) \/ Collect(2)

NextReaders ==
    AddOwned \/ BuildOwned \/ FirstReader \/ SecondReader \/ SaveShared

SpecReaders == Init /\ [][NextReaders]_vars

(***************************************************************************)
(* SpecSteps: build and the queries as they run.  The build of an i32 tree *)
(* of more than node_size items is followed call by call of quicksort:     *)
(* sort holds the Hilbert values, the calls that are still to be made      *)
(* (stack, the next one last) and the last call made; the box and index    *)
(* arrays being sorted are those of the tree.  The i32 tree is fed boxes   *)
(* of which many have the same Hilbert value.  A query runs turn by turn.  *)
(***************************************************************************)
Patterns == { "feed", "same", "two", "three", "first", "last_up", "last_down" }

\* the box of add call n (n counts from 0) in each pattern
PatternBox(m, n) ==
    CASE m = "feed" -> Feed(n)
      [] m = "same" -> Box(1, 1, 3, 3)
      [] m = "two" -> IF n % 2 = 0 THEN Box(0, 0, 2, 2) ELSE Box(4, 4, 5, 5)
      [] m = "three" -> Box(6 - 3 * (n % 3), 0, 7 - 3 * (n % 3), 1)
      [] m = "first" -> IF n = 0 THEN Box(4, 4, 5, 5) ELSE Box(0, 0, 2, 2)
      [] m = "last_up" ->
           IF n = DEFAULT_NODE_SIZE THEN Box(4, 4, 5, 5) ELSE Box(0, 0, 2, 2)
      [] m = "last_down" ->
           IF n = DEFAULT_NODE_SIZE THEN Box(0, 0, 0, 0) ELSE Box(4, 4, 5, 5)

\* the patterns the boxes added so far belong to
PatternsOf(a) ==
    { m \in Patterns : \A n \in 1..Len(a) : a[n] = PatternBox(m, n - 1) }

AddPattern ==
    /\ pc = "ready"
    /\ NoReader
    /\ level_bounds = << >>
    /\ num_items < MaxItems
    /\ \E m \in PatternsOf(added) :
         /\ variant = "f64" => m = "feed"
         /\ add(PatternBox(m, num_items))

\* build is followed call by call of quicksort
Stepped == variant = "i32" /\ num_items > node_size

BuildWhole ==
    /\ ~Stepped
    /\ BuildOwned

\* HilbertRTreeI32::build up to the call of quicksort: the buffer resized,
\* the header, the level bounds and the node count written, the Hilbert
\* values computed and the leaf indices initialised
BuildStart ==
    /\ pc = "ready"
    /\ NoReader
    /\ level_bounds = << >>
    /\ Stepped
    /\ LET n == num_items
           total == calculate_exact_total_nodes(n, node_size)
           bx0 == [p \in 1..total |->
                     IF p <= Len(boxes) THEN boxes[p] ELSE ZeroBox]
       IN  /\ boxes' = bx0
           /\ indices' = [p \in 1..total |-> IF p <= n THEN p - 1 ELSE 0]
           /\ total_nodes' = total
           /\ sort' = [hv |-> HilbertValues(bx0, n, bounds),
                       stack |-> << <<0, n - 1>> >>,
                       last |-> << >>,
                       expect |-> BuildOutcomes]
    /\ data_len' = BuildDataLen
    /\ capacity' = BuildCapacity
    /\ header' = <<251, VersionByte, node_size, num_items>>
    /\ level_bounds' = CalcLevelBounds(num_items, node_size)
    /\ pc' = "building"
    /\ UNCHANGED <<variant, node_size, num_items, bounds, results, call,
                   hist, file, run>>

\* the calls quicksort(left, right) makes after its partition loop has
\* ended with pivot_right, the first one last
CallsAfter(left, right, pivot_right) ==
    (IF pivot_right + 1 < right THEN << <<pivot_right + 1, right>> >>
     ELSE << >>)
    \o (IF pivot_right > left THEN << <<left, pivot_right>> >> ELSE << >>)

\* CallsAfter with the first call made on the whole range again
CallsAfterWhole(left, right, pivot_right) ==
    (IF pivot_right + 1 < right THEN << <<pivot_right + 1, right>> >>
     ELSE << >>)
    \o (IF pivot_right > left THEN << <<left, right>> >> ELSE << >>)

\* the calls quicksort makes
Calls(left, right, pivot_right) == CallsAfter(left, right, pivot_right)

\* one call of quicksort, up to its own calls
SortStep ==
    /\ sort # NoSort
    /\ sort.stack # << >>
    /\ LET top == Len(sort.stack)
           left == sort.stack[top][1]
           right == sort.stack[top][2]
           rest == SubSeq(sort.stack, 1, top - 1)
       IN  IF left >= right
           THEN /\ sort' = [sort EXCEPT !.stack = rest]
                /\ UNCHANGED <<boxes, indices>>
           ELSE LET pivot == median_of_three(sort.hv, left, right)
                    part == Partition([hv |-> sort.hv, b |-> boxes,
                                       i |-> indices],
                                      pivot, left - 1, right + 1)
                IN  /\ boxes' = part.s.b
                    /\ indices' = part.s.i
                    /\ sort' = [sort EXCEPT
                                  !.hv = part.s.hv,
                                  !.stack = rest \o Calls(left, right,
                                                          part.pivot_right),
                                  !.last = <<left, right, part.pivot_right>>]
    /\ UNCHANGED <<variant, data_len, header, level_bounds, node_size,
                   num_items, total_nodes, bounds, results, call, pc, hist,
                   file, capacity, run>>

\* quicksort has returned: the parent levels are built and build returns
BuildEnd ==
    /\ sort # NoSort
    /\ sort.stack = << >>
    /\ LET t == BuildParents([b |-> boxes, i |-> indices], 0, 0, level_bounds,
                             node_size)
       IN  /\ boxes' = t.b
           /\ indices' = t.i
    /\ builds' = builds + 1
    /\ call' = [op |-> "build", expect |-> sort.expect, hv |-> sort.hv]
    /\ pc' = "ready"
    /\ sort' = NoSort
    /\ UNCHANGED <<variant, data_len, header, level_bounds, node_size,
                   num_items, total_nodes, bounds, results, added, file,
                   capacity, run>>

NextSteps ==
    AddPattern \/ BuildWhole \/ BuildStart \/ SortStep \/ BuildEnd
    \/ FirstReader

SpecSteps == Init /\ [][NextSteps]_vars

(***************************************************************************)
(* What the queries are expected to yield, stated over the boxes as they   *)
(* were passed to add: item i is the box of the (i + 1)-th add call.       *)
(***************************************************************************)
Items == 0..(Len(added) - 1)
ItemBox(i) == added[i + 1]

\* the ids in the result vector, and whether none is listed twice
ResultSet == { results[n] : n \in 1..Len(results) }
Distinct(s) == \A m, n \in 1..Len(s) : m # n => s[m] # s[n]

\* the rectangles share a point: touching edges and corners count
Overlap(a, b) ==
    /\ a.min_x <= b.max_x /\ b.min_x <= a.max_x
    /\ a.min_y <= b.max_y /\ b.min_y <= a.max_y

\* the rectangles share a point of positive distance from both borders
OverlapInside(a, b) ==
    /\ a.min_x < b.max_x /\ b.min_x < a.max_x
    /\ a.min_y < b.max_y /\ b.min_y < a.max_y

\* rectangle a lies in rectangle b
Inside(a, b) ==
    /\ b.min_x <= a.min_x /\ a.max_x <= b.max_x
    /\ b.min_y <= a.min_y /\ a.max_y <= b.max_y

\* the squared distance from the point (x, y) to the nearest point of b
Gap(lo, hi, c) == Max(0, Max(lo - c, c - hi))
DistSq(x, y, b) ==
    Gap(b.min_x, b.max_x, x) * Gap(b.min_x, b.max_x, x)
    + Gap(b.min_y, b.max_y, y) * Gap(b.min_y, b.max_y, y)

\* a call of op has returned, on a tree that build has finished
Built == level_bounds # << >>
Returned(op) == pc = "returned" /\ call.op = op
ReturnedBuilt(op) == Returned(op) /\ Built

\* the tree holds more items than one node, so build has reordered the leaves
Reordered == Built /\ num_items > node_size

\* the rectangles meet on a border line of both: they touch
Touch(a, b) ==
    /\ Overlap(a, b)
    /\ \/ a.max_x = b.min_x \/ b.max_x = a.min_x
       \/ a.max_y = b.min_y \/ b.max_y = a.min_y

(***************************************************************************)
(* C1.  query_intersecting on a built tree, f64 or i32, by the flat scan   *)
(* or by the traversal: the ids in the result vector are exactly the ids   *)
(* of the items whose box, as it was added, shares a point with the query  *)
(* window; a box that only touches the window is one of them.              *)
(***************************************************************************)
C1_QueryIntersectingExact ==
    ReturnedBuilt("query_intersecting") =>
        ResultSet = { i \in Items : Overlap(ItemBox(i), call.w) }

\* C1 witness: the traversal of a reordered tree has returned an item that
\* only touches the window, and has left an item out
C1_Witness ==
    /\ ReturnedBuilt("query_intersecting")
    /\ Reordered
    /\ variant = "i32" \/ ~CoversHalf(call.w)
    /\ \E i \in ResultSet :
          Touch(ItemBox(i), call.w) /\ ~OverlapInside(ItemBox(i), call.w)
    /\ Items \ ResultSet # {}

(***************************************************************************)
(* C2.  query_intersecting_id on a built tree of any size, the reordered   *)
(* ones included, with item_id < N: the call returns Ok and the ids in the *)
(* result vector are exactly the ids j # item_id of the items whose box    *)
(* shares a point with the box that was added as item item_id.             *)
(***************************************************************************)
C2_QueryIntersectingIdExact ==
    (ReturnedBuilt("query_intersecting_id") /\ call.item_id < num_items) =>
        /\ call.ret = "Ok"
        /\ ResultSet = { j \in Items \ {call.item_id} :
                           Overlap(ItemBox(j), ItemBox(call.item_id)) }

\* C2, what holds: the same, of the trees that fit in one node, whose
\* leaves build leaves in the order of the add calls
C2_ExactWithinOneNode ==
    (ReturnedBuilt("query_intersecting_id") /\ call.item_id < num_items
       /\ ~Reordered) =>
        /\ call.ret = "Ok"
        /\ ResultSet = { j \in Items \ {call.item_id} :
                           Overlap(ItemBox(j), ItemBox(call.item_id)) }

\* C2 witness: the call has returned the neighbours of an item of a tree of
\* one node
C2_Witness ==
    /\ ReturnedBuilt("query_intersecting_id")
    /\ call.item_id < num_items
    /\ ~Reordered
    /\ Cardinality(ResultSet) >= 2
    /\ Items \ (ResultSet \cup {call.item_id}) # {}

(***************************************************************************)
(* C3.  query_nearest_k on a built tree: the result vector lists exactly   *)
(* min(k, N) items, in non-decreasing order of the distance from the query *)
(* point to the item's box; every item that is not listed is at least as   *)
(* far as the last one listed; k = 0 yields nothing and k >= N yields all  *)
(* N items.                                                                *)
(***************************************************************************)
C3_NearestK ==
    ReturnedBuilt("query_nearest_k") =>
        LET d(i) == DistSq(call.x, call.y, ItemBox(i))
            n == Len(results)
        IN  /\ n = Min(call.k, Len(added))
            /\ ResultSet \subseteq Items
            /\ Cardinality(ResultSet) = n
            /\ \A m \in 1..(n - 1) : d(results[m]) <= d(results[m + 1])
            /\ n > 0 => \A i \in Items \ ResultSet : d(i) >= d(results[n])
            /\ call.k = 0 => results = << >>
            /\ call.k >= Len(added) => ResultSet = Items

\* C3 witness: two items of a reordered tree listed nearest first, at
\* different distances, the second one not within its box; some item is
\* left out
C3_Witness ==
    /\ ReturnedBuilt("query_nearest_k")
    /\ Reordered
    /\ Len(results) = 2
    /\ DistSq(call.x, call.y, ItemBox(results[1]))
         < DistSq(call.x, call.y, ItemBox(results[2]))
    /\ Items \ ResultSet # {}

\* the result vectors the returned call would have left had the vector been
\* empty on entry: the call's own results
OwnResults ==
    CASE call.op = "query_intersecting" ->
             { query_intersecting(call.w, << >>) }
      [] call.op = "query_intersecting_id" ->
             { query_intersecting_id(call.item_id, << >>).res }
      [] call.op = "query_point" ->
             { query_point(call.x, call.y, << >>) }
      [] call.op = "query_contain" ->
             { query_contain(call.w, << >>) }
      [] call.op = "query_contained_within" ->
             { query_contained_within(call.w, << >>) }
      [] call.op = "query_intersecting_k" ->
             { query_intersecting_k(call.w, call.k, << >>) }
      [] call.op = "query_nearest_k" ->
             query_nearest_k(call.x, call.y, call.k, << >>)
      [] call.op = "query_circle" ->
             { query_circle(call.x, call.y, call.radius, << >>) }

(***************************************************************************)
(* C4.  Every query of both trees clears the result vector on entry:       *)
(* whatever the vector held before the call, in every state of the tree    *)
(* (empty, items added but not built, built) and on every outcome, the     *)
(* Err of query_intersecting_id included, the vector holds after the call  *)
(* that call's results and nothing else.                                   *)
(***************************************************************************)
C4_ResultsClearedOnEntry ==
    pc = "returned" => results \in OwnResults

\* C4, what holds: the vector holds the call's own results after every query
\* that returns Ok from the f64 tree, after query_intersecting_k of the i32
\* tree, and after every query of a built i32 tree
C4_ClearedWhereTheCodeClears ==
    (/\ pc = "returned"
     /\ \/ variant = "f64" /\ call.ret = "Ok"
        \/ variant = "i32" /\ (Built \/ call.op = "query_intersecting_k"))
      => results \in OwnResults

\* C4 witness: a query of a built tree has returned its results in a vector
\* that held leftovers on entry
C4_Witness ==
    /\ pc = "returned"
    /\ Built
    /\ call.ret = "Ok"
    /\ call.pre = Leftover
    /\ results # << >>
    /\ results \in OwnResults

C6_QueryPointExact ==
    ReturnedBuilt("query_point") =>
        ResultSet = { i \in Items :
                        /\ ItemBox(i).min_x <= call.x /\ call.x <= ItemBox(i).max_x
                        /\ ItemBox(i).min_y <= call.y /\ call.y <= ItemBox(i).max_y }

\* C6 witness: the point lies on a corner of a returned box that has an
\* interior, in a reordered tree, and some item is left out
C6_Witness ==
    /\ ReturnedBuilt("query_point")
    /\ Reordered
    /\ \E i \in ResultSet :
          /\ ItemBox(i).min_x < ItemBox(i).max_x
          /\ ItemBox(i).min_y < ItemBox(i).max_y
          /\ call.x \in { ItemBox(i).min_x, ItemBox(i).max_x }
          /\ call.y \in { ItemBox(i).min_y, ItemBox(i).max_y }
    /\ Items \ ResultSet # {}

(***************************************************************************)
(* C7.  query_contain on a built tree, f64 or i32: the ids in the result   *)
(* vector are exactly the ids of the items whose box contains the whole    *)
(* window; skipping the internal nodes that fail the same test loses none. *)
(***************************************************************************)
C7_QueryContainExact ==
    ReturnedBuilt("query_contain") =>
        ResultSet = { i \in Items : Inside(call.w, ItemBox(i)) }

\* C7 witness: a reordered tree has returned an item that contains the
\* window and has left out one that only overlaps it
C7_Witness ==
    /\ ReturnedBuilt("query_contain")
    /\ Reordered
    /\ ResultSet # {}
    /\ \E i \in Items \ ResultSet : Overlap(ItemBox(i), call.w)

(***************************************************************************)
(* C8.  query_contained_within on a built tree, f64 or i32: the ids in the *)
(* result vector are exactly the ids of the items whose box lies in the    *)
(* window; internal nodes are descended on overlap, leaves are emitted     *)
(* only when contained.                                                    *)
(***************************************************************************)
C8_QueryContainedWithinExact ==
    ReturnedBuilt("query_contained_within") =>
        ResultSet = { i \in Items : Inside(ItemBox(i), call.w) }

\* C8 witness: a reordered tree, a window that does not hold the whole
\* tree, an item returned and an overlapping item left out
C8_Witness ==
    /\ ReturnedBuilt("query_contained_within")
    /\ Reordered
    /\ ~Inside(bounds, call.w)
    /\ ResultSet # {}
    /\ \E i \in Items \ ResultSet : Overlap(ItemBox(i), call.w)

(***************************************************************************)
(* C9.  query_intersecting_k on a built tree, f64 or i32: the result       *)
(* vector lists exactly min(k, M) ids, M the number of items whose box     *)
(* shares a point with the window, each of them one of those M items;      *)
(* k = 0 yields nothing.                                                   *)
(***************************************************************************)
C9_QueryIntersectingK ==
    ReturnedBuilt("query_intersecting_k") =>
        LET hits == { i \in Items : Overlap(ItemBox(i), call.w) }
        IN  /\ Len(results) = Min(call.k, Cardinality(hits))
            /\ Cardinality(ResultSet) = Len(results)
            /\ ResultSet \subseteq hits
            /\ call.k = 0 => results = << >>

\* C9 witness: a reordered tree has returned k >= 2 of more than k items
\* that intersect the window
C9_Witness ==
    /\ ReturnedBuilt("query_intersecting_k")
    /\ Reordered
    /\ call.k >= 2
    /\ Len(results) = call.k
    /\ Cardinality({ i \in Items : Overlap(ItemBox(i), call.w) }) > call.k

(***************************************************************************)
(* C10.  query_circle on a built tree: for a radius r >= 0 the ids in the  *)
(* result vector are exactly the ids of the items whose box has its        *)
(* nearest point to the centre at squared distance <= r * r; for r < 0     *)
(* the result is empty.                                                    *)
(***************************************************************************)
C10_QueryCircleExact ==
    ReturnedBuilt("query_circle") =>
        IF call.radius >= 0
        THEN ResultSet = { i \in Items :
                             DistSq(call.x, call.y, ItemBox(i))
                               <= call.radius * call.radius }
        ELSE results = << >>

\* C10 witness: a reordered tree has returned an item at exactly the radius
\* from the centre, and has left an item out
C10_Witness ==
    /\ ReturnedBuilt("query_circle")
    /\ Reordered
    /\ call.radius > 0
    /\ \E i \in ResultSet :
          DistSq(call.x, call.y, ItemBox(i)) = call.radius * call.radius
    /\ Items \ ResultSet # {}

(***************************************************************************)
(* The direction queries, stated over the added boxes.                     *)
(***************************************************************************)
\* the direction is not the zero vector and the distance is not negative
ValidDirection == call.dir # <<0, 0>> /\ call.distance >= 0

\* the vector of the given length that points the way dir points
Move(dir, length) ==
    CHOOSE v \in (-length..length) \X (-length..length) :
        /\ v[1] * v[1] + v[2] * v[2] = length * length
        /\ v[1] * dir[2] = v[2] * dir[1]
        /\ v[1] * dir[1] >= 0 /\ v[2] * dir[2] >= 0

\* the rectangle moved by v, and the smallest box that holds a and b
Moved(a, v) == [min_x |-> a.min_x + v[1], min_y |-> a.min_y + v[2],
                max_x |-> a.max_x + v[1], max_y |-> a.max_y + v[2]]
Hull(a, b) ==
    [min_x |-> IF a.min_x <= b.min_x THEN a.min_x ELSE b.min_x,
     min_y |-> IF a.min_y <= b.min_y THEN a.min_y ELSE b.min_y,
     max_x |-> IF a.max_x >= b.max_x THEN a.max_x ELSE b.max_x,
     max_y |-> IF a.max_y >= b.max_y THEN a.max_y ELSE b.max_y]

\* the swept box of the returned call
Swept == Hull(call.rect, Moved(call.rect, Move(call.dir, call.distance)))
InPath == { i \in Items : Overlap(ItemBox(i), Swept) }

(***************************************************************************)
(* C11.  query_in_direction on a built tree: for a direction that is not   *)
(* the zero vector and a distance >= 0 the ids in the result vector are    *)
(* the ids query_intersecting yields for the swept box, the smallest box   *)
(* that holds the rectangle and the rectangle moved by the distance along  *)
(* the direction; for the zero direction or a negative distance the        *)
(* result is empty.                                                        *)
(***************************************************************************)
C11_InDirectionIsWindowQuery ==
    ReturnedBuilt("query_in_direction") =>
        IF ValidDirection
        THEN LET window == query_intersecting_f64(Swept, << >>)
             IN  /\ ResultSet = { window[n] : n \in 1..Len(window) }
                 /\ ResultSet = InPath
        ELSE results = << >>

\* C11 witness: a reordered tree, a slanted direction; an item is returned
\* that meets neither the rectangle nor the moved rectangle, and an item is
\* left out
C11_Witness ==
    /\ ReturnedBuilt("query_in_direction")
    /\ Reordered
    /\ call.dir = <<3, 4>> /\ call.distance > 0
    /\ \E i \in ResultSet :
          /\ ~Overlap(ItemBox(i), call.rect)
          /\ ~Overlap(ItemBox(i), Moved(call.rect, Move(call.dir, call.distance)))
    /\ Items \ ResultSet # {}

\* twice the centre of item i, and the projection of (centre - rectangle min
\* corner) of item i onto the direction of the returned call, times twice
\* the length of the direction
CentreTwice(i) == <<ItemBox(i).min_x + ItemBox(i).max_x,
                    ItemBox(i).min_y + ItemBox(i).max_y>>
Projection(i) ==
    (CentreTwice(i)[1] - 2 * call.rect.min_x) * call.dir[1]
    + (CentreTwice(i)[2] - 2 * call.rect.min_y) * call.dir[2]

(***************************************************************************)
(* C12.  query_in_direction_k on a built tree with a valid direction and   *)
(* k > 0: the result holds min(k, M) distinct ids, M the number of items   *)
(* that overlap the swept box; each is such an item, no item left out has  *)
(* a smaller projection than a returned one, and the ids are listed by     *)
(* non-decreasing projection.  For k = 0 (and for an invalid direction)    *)
(* the result is empty.                                                    *)
(***************************************************************************)
C12_InDirectionKNearestAlong ==
    ReturnedBuilt("query_in_direction_k") =>
        IF ValidDirection /\ call.k > 0
        THEN /\ Len(results) = (IF call.k <= Cardinality(InPath)
                                THEN call.k ELSE Cardinality(InPath))
             /\ Distinct(results)
             /\ ResultSet \subseteq InPath
             /\ \A i \in ResultSet : \A j \in InPath \ ResultSet :
                    Projection(i) <= Projection(j)
             /\ \A m, n \in 1..Len(results) :
                    m < n => Projection(results[m]) <= Projection(results[n])
        ELSE results = << >>

\* C12 witness: a reordered tree with more than k = 2 items in the path;
\* the two returned have different projections and are not the two with the
\* smallest ids
C12_Witness ==
    /\ ReturnedBuilt("query_in_direction_k")
    /\ Reordered
    /\ ValidDirection /\ call.k = 2 /\ call.distance > 0
    /\ Cardinality(InPath) > 2
    /\ Len(results) = 2
    /\ Projection(results[1]) < Projection(results[2])
    /\ \E j \in InPath \ ResultSet : j < results[1] /\ j < results[2]

\* C12 witness for k = 0: a built tree with items in the path, nothing
\* returned into a vector that held leftovers
C12_WitnessZero ==
    /\ ReturnedBuilt("query_in_direction_k")
    /\ ValidDirection /\ call.k = 0
    /\ InPath # {} /\ call.pre # << >> /\ results = << >>

(***************************************************************************)
(* C13.  The documentation example of query_in_direction_k: on the built   *)
(* tree of boxes 0 = (0,0,1,1), 1 = (2,0,3,1), 2 = (4,0,5,1),              *)
(* 3 = (6,6,7,7), the rectangle (0,0,1,1) moved in direction (1,0) over    *)
(* distance 10 with k = 2.  As stated the call yields boxes 1 and 2; the   *)
(* call yields boxes 0 and 1, in this order: box 0 overlaps the swept box  *)
(* (0,0,11,1) and its centre has the smallest projection.                  *)
(***************************************************************************)
DocExampleCall ==
    /\ ReturnedBuilt("query_in_direction_k")
    /\ added = ExampleBoxes
    /\ call.rect = Box(0, 0, 1, 1) /\ call.dir = <<1, 0>>
    /\ call.distance = 10 /\ call.k = 2

\* as stated
C13_DocExampleAsStated == DocExampleCall => results = <<1, 2>>

\* as the call behaves
C13_DocExampleYieldsZeroAndOne == DocExampleCall => results = <<0, 1>>

\* C13 witness: the call of the example has returned on the example's tree
\* a result that begins with the box of the rectangle itself
C13_Witness == DocExampleCall /\ Len(results) = 2 /\ results[1] = 0

(***************************************************************************)
(* The queries for point data.                                             *)
(***************************************************************************)
\* every item added is a point: min == max on both axes
IsPoint(b) == b.min_x = b.max_x /\ b.min_y = b.max_y
AllPoints == \A i \in Items : IsPoint(ItemBox(i))

\* the returned vector is a K-nearest result for the query point of the
\* call: min(k, N) distinct items, nearest first, nothing left out that is
\* nearer than the last one listed
NearestKCorrect ==
    LET d(i) == DistSq(call.x, call.y, ItemBox(i))
        n == Len(results)
    IN  /\ n = Min(call.k, Len(added))
        /\ ResultSet \subseteq Items
        /\ Cardinality(ResultSet) = n
        /\ \A m \in 1..(n - 1) : d(results[m]) <= d(results[m + 1])
        /\ n > 0 => \A i \in Items \ ResultSet : d(i) >= d(results[n])

\* the returned vector is one query_nearest_k may leave for the same call
SameAsNearestK == results \in query_nearest_k(call.x, call.y, call.k, << >>)

(***************************************************************************)
(* C14.  query_nearest_k_points on a built tree returns a correct          *)
(* K-nearest result, the distance-ordered result query_nearest_k returns.  *)
(* As stated: on every built tree, of points only or of points and boxes.  *)
(* As the code behaves: on every built tree whose items are all points; a  *)
(* box that is not a point is measured from its corner (min_x, min_y).     *)
(***************************************************************************)
\* as stated
C14_PointsVariantOnEveryTree ==
    ReturnedBuilt("query_nearest_k_points") =>
        NearestKCorrect /\ SameAsNearestK

\* as the code behaves
C14_PointsVariantOnPointTrees ==
    (ReturnedBuilt("query_nearest_k_points") /\ AllPoints) =>
        NearestKCorrect /\ SameAsNearestK

\* C14 witness: a reordered tree of points has returned two points at
\* different distances, neither at the query point, and has left a point out
C14_Witness ==
    /\ ReturnedBuilt("query_nearest_k_points")
    /\ AllPoints /\ Reordered
    /\ call.k = 2 /\ Len(results) = 2
    /\ 0 < DistSq(call.x, call.y, ItemBox(results[1]))
    /\ DistSq(call.x, call.y, ItemBox(results[1]))
         < DistSq(call.x, call.y, ItemBox(results[2]))
    /\ results[1] > results[2]

(***************************************************************************)
(* C15.  query_circle_points on a built tree whose items are all points:   *)
(* for r >= 0 the ids are the ids query_circle yields for the same centre  *)
(* and radius (the points within r of the centre), each once, listed in    *)
(* non-decreasing distance to the centre; for r < 0 the result is empty.   *)
(***************************************************************************)
C15_CirclePointsSortedSameSet ==
    (ReturnedBuilt("query_circle_points") /\ AllPoints) =>
        IF call.radius >= 0
        THEN LET general == query_circle(call.x, call.y, call.radius, << >>)
                 d(i) == DistSq(call.x, call.y, ItemBox(i))
             IN  /\ ResultSet = { general[n] : n \in 1..Len(general) }
                 /\ ResultSet = { i \in Items : d(i) <= call.radius * call.radius }
                 /\ Distinct(results)
                 /\ \A m, n \in 1..Len(results) :
                        m < n => d(results[m]) <= d(results[n])
        ELSE results = << >>

\* C15 witness: a reordered tree of points has returned three points or
\* more, the first nearer than the last, one at exactly the radius, and has
\* left a point out
C15_Witness ==
    /\ ReturnedBuilt("query_circle_points")
    /\ AllPoints /\ Reordered
    /\ Len(results) >= 3
    /\ DistSq(call.x, call.y, ItemBox(results[1]))
         < DistSq(call.x, call.y, ItemBox(results[Len(results)]))
    /\ DistSq(call.x, call.y, ItemBox(results[Len(results)]))
         = call.radius * call.radius
    /\ Items \ ResultSet # {}

(***************************************************************************)
(* C16.  get(item_id), before build and after build (with any number of    *)
(* items, more than one node holds included): Some of the box passed to    *)
(* add call item_id when item_id < N, None when item_id >= N.              *)
(***************************************************************************)
C16_GetReturnsAddedBox ==
    Returned("get") =>
        IF call.item_id < Len(added)
        THEN call.ret = [some |-> TRUE, box |-> ItemBox(call.item_id)]
        ELSE call.ret = [some |-> FALSE]

\* C16 witness: on a reordered tree get has returned the box of an item
\* that build moved to another position, where a different box was added
C16_Witness ==
    /\ ReturnedBuilt("get") /\ Reordered
    /\ call.item_id < Len(added)
    /\ call.ret.some
    /\ indices[call.item_id + 1] # call.item_id
    /\ boxes[call.item_id + 1] # ItemBox(call.item_id)

\* C16 witnesses for the other cases: before build, and past the last item
C16_WitnessBeforeBuild ==
    /\ Returned("get") /\ ~Built
    /\ Len(added) > 1 /\ call.item_id = 1 /\ call.ret.some
C16_WitnessNone ==
    /\ ReturnedBuilt("get") /\ Len(added) > 0
    /\ call.item_id = Len(added) /\ ~call.ret.some

(***************************************************************************)
(* Persistence.                                                            *)
(***************************************************************************)
\* the step is a call of save
SaveStep == pc = "ready" /\ pc' = "returned" /\ call'.op = "save"

(***************************************************************************)
(* C17.  For a built tree T: save leaves T as it is, and load of the file  *)
(* save has written for T succeeds with a tree that answers every query,   *)
(* len and get as T does (and is T field by field).                        *)
(***************************************************************************)
C17_SaveLoadRoundTrip ==
    /\ [](ReturnedBuilt("load") /\ call.from # << >> =>
              /\ call.ret = "Ok"
              /\ tree = call.saved
              /\ Answers = call.answers)
    /\ [][SaveStep => (tree' = tree /\ file' = save)]_vars

\* C17 witness: load has returned Ok with a reordered tree, read from the
\* file save wrote
C17_Witness ==
    /\ ReturnedBuilt("load") /\ Reordered
    /\ call.ret = "Ok"
    /\ call.from = save
    /\ call.answers.query_intersecting[Box(2, 1, 6, 5)] # << >>

(***************************************************************************)
(* C18.  load of a file whose first byte is not the magic 0xFB, or whose   *)
(* second byte is not the version byte 0x01, returns an InvalidData error, *)
(* and it has read no field after the version byte when it does: the       *)
(* magic alone when the magic is wrong.  No tree comes of it.              *)
(***************************************************************************)
C18_LoadRejectsBadHeader ==
    (Returned("load") /\ call.from # << >>) =>
        LET f == call.from
            bad_magic == f[1] # 251
            bad_version == Len(f) >= 2 /\ f[2] # 1
        IN  /\ bad_magic => (call.ret = "InvalidData" /\ call.read = 1)
            /\ (~bad_magic /\ bad_version) =>
                  (call.ret = "InvalidData" /\ call.read = 2)
            /\ (bad_magic \/ bad_version) => call.read < 3

\* C18 witness: load has rejected a file that is whole and has the magic,
\* with the type number of i32 as its version byte
C18_Witness ==
    /\ Returned("load")
    /\ Len(call.from) > FieldsEnd
    /\ call.from[1] = 251 /\ call.from[2] = 4
    /\ call.ret = "InvalidData"

\* C18 witness for the magic: a whole file with a wrong first byte and the
\* right version byte
C18_WitnessMagic ==
    /\ Returned("load")
    /\ Len(call.from) > FieldsEnd
    /\ call.from[1] # 251 /\ call.from[2] = 1
    /\ call.ret = "InvalidData"

(***************************************************************************)
(* C19.  The version-and-type byte the i32 tree writes is not the 0x01 of  *)
(* the f64 tree, so that load of the f64 tree rejects data that begins     *)
(* with the header of an i32 tree at its version check.                    *)
(***************************************************************************)
C19_VersionBytesDiffer ==
    (variant = "i32" /\ header # << >>) =>
        /\ header[2] # 1
        /\ load(<<header[1], header[2]>>) = LoadErr("InvalidData", VersionAt)

\* what the code does: both trees write the magic 0xFB and the byte 0x01
C19_SameVersionByte ==
    header # << >> => (header[1] = 251 /\ header[2] = 1)

\* C19 witness: an i32 tree is built, its header written
C19_Witness ==
    /\ variant = "i32" /\ Built /\ num_items > 0
    /\ header[2] = 1
    /\ load(<<header[1], header[2]>>).ret # "InvalidData"

(***************************************************************************)
(* C20.  Before build (no add yet, or add calls only) every query of both  *)
(* trees leaves the caller's vector empty; a tree with no items has        *)
(* is_empty true and len 0, and build leaves it as it was constructed.     *)
(***************************************************************************)
\* a tree without items is as with_capacity made it, build called or not
EmptyTreeUntouched ==
    added = << >> => (is_empty /\ len = 0 /\ with_capacity)

C20_EmptyBeforeBuild ==
    /\ (pc = "returned" /\ ~Built) => results = << >>
    /\ EmptyTreeUntouched

\* what holds: before build no query yields an id, the vector is empty or
\* holds what it held; it is empty after every query of the f64 tree that
\* returns Ok and after query_intersecting_k of the i32 tree
C20_EmptyBeforeBuildWhereCleared ==
    /\ (pc = "returned" /\ ~Built) =>
          /\ results \in { << >>, call.pre }
          /\ (call.ret = "Ok"
              /\ (variant = "f64" \/ call.op = "query_intersecting_k")) =>
                 results = << >>
    /\ EmptyTreeUntouched

\* C20 witness: a query of the i32 tree has returned before build, items
\* added, with the vector still holding what it held on entry
C20_Witness ==
    /\ pc = "returned" /\ ~Built
    /\ variant = "i32" /\ Len(added) > 0
    /\ call.pre # << >> /\ results = call.pre

(***************************************************************************)
(* The shape of a built tree, stated over level_bounds alone.              *)
(***************************************************************************)
\* the number of nodes of level i (level 1: the leaves)
LevelCount(i) ==
    level_bounds[i] - (IF i = 1 THEN 0 ELSE level_bounds[i - 1])

\* the least whole number of groups of b that hold a
CeilOf(a, b) == (a \div b) + (IF a % b = 0 THEN 0 ELSE 1)

RECURSIVE SumOfLevels(_)
SumOfLevels(i) == IF i = 0 THEN 0 ELSE SumOfLevels(i - 1) + LevelCount(i)

(***************************************************************************)
(* C26.  After build on N > 0 items, f64 or i32: level_bounds starts with  *)
(* N, every further level holds the ceiling of the level below divided by  *)
(* the fanout, the levels end with the first level of at most one node (so *)
(* N <= fanout gives the leaves and one root), total_nodes is the last     *)
(* level bound and the sum of the level counts, and the buffer is 8 bytes  *)
(* of header plus total_nodes boxes and total_nodes u32 indices.           *)
(***************************************************************************)
C26_LevelBoundsAndBufferSize ==
    (Built /\ num_items > 0) =>
        LET levels == Len(level_bounds)
        IN  /\ levels >= 2
            /\ level_bounds[1] = num_items
            /\ \A i \in 2..levels :
                  LevelCount(i) = CeilOf(LevelCount(i - 1), node_size)
            /\ \A i \in 2..(levels - 1) : LevelCount(i) > 1
            /\ LevelCount(levels) <= 1
            /\ num_items <= node_size => levels = 2
            /\ total_nodes = level_bounds[levels]
            /\ total_nodes = SumOfLevels(levels)
            /\ data_len = HEADER_SIZE + total_nodes * (size_of_box + SIZE_OF_U32)
            /\ Len(boxes) = total_nodes /\ Len(indices) = total_nodes

\* C26 witness: a tree of more items than the fanout is built, with a level
\* of two parents under the root
C26_Witness ==
    /\ Built /\ num_items > node_size
    /\ Len(level_bounds) = 3
    /\ LevelCount(2) = 2 /\ LevelCount(3) = 1
    /\ data_len = HEADER_SIZE + (num_items + 3) * (size_of_box + SIZE_OF_U32)

(***************************************************************************)
(* C24.  After build on N items, f64 or i32, N <= fanout or above: the     *)
(* indices of the leaf positions 0 .. N-1 are the ids 0 .. N-1, each once, *)
(* and the box stored at leaf position p is the box the index[p]-th add    *)
(* call passed: the sort moves each box together with its id.              *)
(***************************************************************************)
C24_LeavesArePermutationOfInput ==
    (Built /\ num_items > 0) =>
        /\ num_items = Len(added)
        /\ { get_index(p) : p \in 0..(num_items - 1) } = Items
        /\ \A p \in 0..(num_items - 1) : get_box(p) = ItemBox(get_index(p))

\* C24 witness: the build of an i32 tree and of an f64 tree of more items
\* than the fanout has moved a box away from the position add gave it
C24_Witness ==
    /\ Reordered
    /\ \E p \in 0..(num_items - 1) :
          /\ get_index(p) # p
          /\ get_box(p) # ItemBox(p)
          /\ get_box(p) = ItemBox(get_index(p))

(***************************************************************************)
(* The nodes of a built tree by level, and the hull of a set of boxes.     *)
(***************************************************************************)
\* the positions of level i (level 1: the leaves)
LevelPositions(i) ==
    (IF i = 1 THEN 0 ELSE level_bounds[i - 1]) .. (level_bounds[i] - 1)

\* the children of the parent at position p of level i + 1, by its index
ChildrenOf(i, p) ==
    LET first_child == get_index(p) \div 4
    IN  first_child .. (Min(first_child + node_size, level_bounds[i]) - 1)

\* the least box that holds the boxes at the positions P
HullOf(P) ==
    LET least(S) == CHOOSE v \in S : \A u \in S : v <= u
        most(S) == CHOOSE v \in S : \A u \in S : v >= u
    IN  Box(least({ get_box(c).min_x : c \in P }),
            least({ get_box(c).min_y : c \in P }),
            most({ get_box(c).max_x : c \in P }),
            most({ get_box(c).max_y : c \in P }))

\* the positions below position p of level i, all levels down
RECURSIVE Descendants(_, _)
Descendants(i, p) ==
    IF i = 1 THEN {}
    ELSE ChildrenOf(i - 1, p)
         \cup UNION { Descendants(i - 1, c) : c \in ChildrenOf(i - 1, p) }

(***************************************************************************)
(* C25.  After build, f64 or i32: the parent at position p of level i + 1  *)
(* has its children at the positions first_child .. min(first_child + B,   *)
(* L[i]) - 1 of level i, first_child = index[p] >> 2, and its box is the   *)
(* component-wise min/max of their boxes; so the box of a node holds the   *)
(* box of every descendant, and for N <= B the box of the one root is the  *)
(* global bounds.                                                          *)
(***************************************************************************)
C25_ParentBoxIsUnionOfChildren ==
    (Built /\ num_items > 0) =>
        /\ \A i \in 1..(Len(level_bounds) - 1) :
              \A p \in LevelPositions(i + 1) :
                  /\ ChildrenOf(i, p) # {}
                  /\ ChildrenOf(i, p) \subseteq LevelPositions(i)
                  /\ get_box(p) = HullOf(ChildrenOf(i, p))
                  /\ \A d \in Descendants(i + 1, p) : Inside(get_box(d), get_box(p))
        \* the children of the parents of a level are the level below, each once
        /\ \A i \in 1..(Len(level_bounds) - 1) :
              /\ UNION { ChildrenOf(i, p) : p \in LevelPositions(i + 1) }
                     = LevelPositions(i)
              /\ \A p, q \in LevelPositions(i + 1) :
                     p # q => ChildrenOf(i, p) \cap ChildrenOf(i, q) = {}
        /\ num_items <= node_size =>
              /\ LevelPositions(2) = { num_items }
              /\ get_box(num_items) = bounds

\* C25 witness: a tree of three levels whose second parent holds the last
\* leaf alone or the last two, under a root that holds both parents
C25_Witness ==
    /\ Built /\ Len(level_bounds) = 3
    /\ Cardinality(ChildrenOf(1, num_items)) = node_size
    /\ ChildrenOf(1, num_items + 1) # {}
    /\ Cardinality(ChildrenOf(1, num_items + 1)) < 3
    /\ ChildrenOf(2, total_nodes - 1) = { num_items, num_items + 1 }
    /\ get_box(num_items) # get_box(total_nodes - 1)

(***************************************************************************)
(* C30.  build called again on a built tree, no add in between, for any N: *)
(* the call returns, and afterwards every query answers the ids, and get   *)
(* the boxes, that were answered after the first build.                    *)
(***************************************************************************)
NotedAndBuiltAgain == call.op = "note" /\ builds >= 2

C30_SecondBuildHarmless ==
    NotedAndBuiltAgain => AnswerIds = call.answers

\* what holds: for N <= fanout the second build leaves the tree as the
\* first left it, and so the answers
C30_SecondBuildHarmlessInOneNode ==
    (NotedAndBuiltAgain /\ num_items <= node_size) =>
        /\ tree = call.tree
        /\ AnswerIds = call.answers

\* C30 witness: the second build of a tree of several items in one node has
\* returned, the tree answering ids
C30_Witness ==
    /\ NotedAndBuiltAgain
    /\ num_items <= node_size /\ num_items > 2
    /\ \E w \in Windows : Cardinality(call.answers.query_intersecting[w]) > 1

(***************************************************************************)
(* Two trees of the same kind built from the same boxes.                   *)
(***************************************************************************)
RECURSIVE SeqBag(_)
SeqBag(a) == IF a = << >> THEN EmptyBag ELSE SeqBag(Tail(a)) (+) One(Head(a))

\* the second tree is built, of the kind of the first and from the same
\* multiset of boxes, and the first was built when its answers were noted
SameBoxesBothBuilt ==
    /\ call.op = "note" /\ call.built /\ Built
    /\ variant = call.variant
    /\ SeqBag(added) = SeqBag(call.added)

\* the numbers of results of the possible outcomes
Counts(outcomes) == { BagCardinality(b) : b \in outcomes }

SameCounts(mine, noted) ==
    \A arg \in DOMAIN mine : Counts(mine[arg]) = Counts(noted[arg])

(***************************************************************************)
(* C21.  Two trees built from the same multiset of boxes added in          *)
(* different orders answer every query, the K-bounded queries included,    *)
(* with the same boxes when the arguments are the same.                    *)
(***************************************************************************)
C21_SameBoxesForEveryQuery ==
    SameBoxesBothBuilt => AnswerBoxes = call.boxes

\* C21 as amended: the queries that yield every match answer the same
\* boxes, and the K-bounded queries the same number of boxes
C21_SameBoxesForUnboundedQueries ==
    SameBoxesBothBuilt =>
        /\ AnswerBoxes.every = call.boxes.every
        /\ SameCounts(AnswerBoxes.k_bounded.query_intersecting_k,
                      call.boxes.k_bounded.query_intersecting_k)
        /\ variant = "f64" =>
              /\ SameCounts(AnswerBoxes.k_bounded.only_f64.query_nearest_k,
                            call.boxes.k_bounded.only_f64.query_nearest_k)
              /\ SameCounts(AnswerBoxes.k_bounded.only_f64.query_in_direction_k,
                            call.boxes.k_bounded.only_f64.query_in_direction_k)

\* C21 witness: two trees of more items than the fanout, filled in
\* different orders, answer a window query with the same two or more boxes
C21_Witness ==
    /\ SameBoxesBothBuilt
    /\ added # call.added
    /\ Reordered
    /\ \E w \in Windows :
          /\ BagCardinality(call.boxes.every.query_intersecting[w]) > 1
          /\ AnswerBoxes.every.query_intersecting[w]
                 = call.boxes.every.query_intersecting[w]

\* the same within one node, where a K-bounded query answers another box
C21_WitnessFirstK ==
    /\ SameBoxesBothBuilt
    /\ num_items <= node_size
    /\ AnswerBoxes.k_bounded # call.boxes.k_bounded

(***************************************************************************)
(* An f64 tree and an i32 tree given the same boxes in the same order.     *)
(***************************************************************************)
\* the second tree is of the other kind, holds the boxes of the first in
\* the order of the first, and is built if the first was
SameBoxesOtherKind ==
    /\ call.op = "note"
    /\ variant # call.variant
    /\ added = call.added
    /\ call.built = Built

\* two trees' answers to the operations they share: the same ids, and for
\* query_intersecting_k the same number of ids
SameSharedAnswers(mine, noted) ==
    /\ \A w \in Windows :
          /\ IdSet(mine.query_intersecting[w]) = IdSet(noted.query_intersecting[w])
          /\ IdSet(mine.query_contain[w]) = IdSet(noted.query_contain[w])
          /\ IdSet(mine.query_contained_within[w])
                 = IdSet(noted.query_contained_within[w])
    /\ \A p \in Points : IdSet(mine.query_point[p]) = IdSet(noted.query_point[p])
    /\ \A w \in Windows, k \in Ks :
          Len(mine.query_intersecting_k[w, k]) = Len(noted.query_intersecting_k[w, k])

(***************************************************************************)
(* C29.  For the same sequence of boxes the i32 tree and the f64 tree      *)
(* answer query_intersecting, query_point, query_contain and               *)
(* query_contained_within with the same set of ids, and                    *)
(* query_intersecting_k with the same number of ids.                       *)
(***************************************************************************)
C29_VariantsAnswerAlike ==
    SameBoxesOtherKind =>
        \A pre \in Pres : SameSharedAnswers(SharedAnswers(pre), call.shared[pre])

\* what holds: the two trees answer alike once they are built, and before
\* that when the vector passed is empty
C29_VariantsAnswerAlikeWhereCleared ==
    SameBoxesOtherKind =>
        \A pre \in Pres :
            (Built \/ pre = << >>) =>
                SameSharedAnswers(SharedAnswers(pre), call.shared[pre])

\* C29 witness: an f64 and an i32 tree of more items than the fanout, each
\* sorted by its own routine into another leaf order, answer a window query
\* with the same two or more ids
C29_Witness ==
    /\ SameBoxesOtherKind
    /\ Reordered
    /\ \E w \in Windows :
          /\ Len(call.shared[<< >>].query_intersecting[w]) > 1
          /\ query_intersecting(w, << >>) # call.shared[<< >>].query_intersecting[w]
          /\ IdSet(query_intersecting(w, << >>))
                 = IdSet(call.shared[<< >>].query_intersecting[w])

(***************************************************************************)
(* C22.  add and build never fail, whatever the coordinates (for the i32   *)
(* tree also with boxes at i32::MIN and at i32::MAX, the bounds wider than *)
(* i32::MAX): no overflow, no wrap-around, no panic, and build completes.  *)
(***************************************************************************)
\* the width and the height build took of the bounds fit the coordinate type
BoundsFitI32 ==
    /\ ~SubOverflows(bounds.max_x, bounds.min_x)
    /\ ~SubOverflows(bounds.max_y, bounds.min_y)

C22_BuildNeverOverflows ==
    /\ pc # "panicked"
    /\ (Built /\ variant = "i32" /\ num_items > node_size) => BoundsFitI32

\* what holds: a build of at most fanout items takes no width and completes
\* for every bounds, and the tree answers with the items in the window
C22_BuildOfOneNodeCompletes ==
    /\ pc = "panicked" => num_items > node_size
    /\ (ReturnedBuilt("query_intersecting") /\ num_items <= node_size) =>
          ResultSet = { i \in Items :
                          /\ ItemBox(i).min_x <= call.w.max_x
                          /\ call.w.min_x <= ItemBox(i).max_x
                          /\ ItemBox(i).min_y <= call.w.max_y
                          /\ call.w.min_y <= ItemBox(i).max_y }

\* C22 witness: a tree of a box at i32::MIN and a box at i32::MAX in one
\* node is built and answers with the box at i32::MIN
C22_Witness ==
    /\ ReturnedBuilt("query_intersecting")
    /\ num_items <= node_size /\ num_items > 2
    /\ ~BoundsFitI32
    /\ call.w = Box(I32_MIN, 0, I32_MIN + 50, 1)
    /\ results = <<0>>

(***************************************************************************)
(* C27.  Accesses of the buffer.                                           *)
(***************************************************************************)
\* the bytes a noted read takes lie inside the length of the buffer
ReadInside(r) == r.at >= 0 /\ r.at + r.bytes <= data_len

\* add was called after build
Misused == level_bounds # << >> /\ num_items > level_bounds[1]

\* the length set_len and resize give the buffer is inside the capacity, the
\* box the last add wrote is inside the length, and so are the box array and
\* the index array build wrote
WritesInside ==
    /\ data_len <= capacity
    /\ num_items > 0 => BoxAt(num_items - 1) + size_of_box <= data_len
    /\ level_bounds # << >> => IndexAt(total_nodes) <= data_len

Logged == pc = "returned" /\ "reads" \in DOMAIN call

C27_WitnessBatch ==
    Logged /\ \E r \in call.reads : r.bytes = 4 * size_of_box

\* C27: a call on a misused tree was stopped by the bounds check
C27_WitnessPanic == Logged /\ Misused /\ call.ret = "panic"

(***************************************************************************)
(* C23.  Readers of a built tree.                                          *)
(***************************************************************************)
\* the result vectors the call of rec may leave when it runs alone
Alone(rec) ==
    LET q == rec.q
    IN  CASE rec.kind = "query_intersecting" ->
               { query_intersecting(q.w, << >>) }
          [] rec.kind = "query_point" -> { query_point(q.x, q.y, << >>) }
          [] rec.kind = "query_contain" -> { query_contain(q.w, << >>) }
          [] rec.kind = "query_contained_within" ->
               { query_contained_within(q.w, << >>) }
          [] rec.kind = "query_intersecting_k" ->
               { query_intersecting_k(q.w, q.k, << >>) }
          [] rec.kind = "query_circle" ->
               { query_circle(q.x, q.y, q.radius, << >>) }
          [] rec.kind = "query_in_direction" ->
               { query_in_direction(q.rect, q.dir, q.distance, << >>) }
          [] rec.kind = "query_in_direction_k" ->
               query_in_direction_k(q.rect, q.dir, q.k, q.distance, << >>)
          [] rec.kind = "query_nearest_k" ->
               query_nearest_k(q.x, q.y, q.k, << >>)

\* a turn of a query, the start or the end of one, or a save
ReaderStep == run' # run \/ file' # file

NoPositionTwice ==
    \A r \in Readers :
        run[r] # Idle =>
            \A p \in BagToSet(run[r].seen) :
                /\ CopiesIn(p, run[r].seen) = 1
                /\ 0 <= p
                /\ p < total_nodes

\* the node positions a call in progress has still to take from its queue,
\* stack or heap, the one it is at included
Pending(rec) ==
    IF rec.kind = "query_nearest_k" THEN BagCardinality(rec.st.queue) + 1
    ELSE IF rec.kind = "query_in_direction_k" THEN Len(rec.stack) + 1
    ELSE Len(rec.queue) + 1

\* the work a call has left at most: the positions pending, and twice the
\* positions of the tree it has not put on its queue, stack or heap yet
Work(rec) ==
    IF rec.at # "running" THEN 0
    ELSE 2 * (total_nodes - BagCardinality(rec.seen)) + Pending(rec)

\* a call in progress can take its next turn
CanTurn == \A r \in Readers : run[r].at = "running" => Turns(run[r]) # {}

\* every turn of a query leaves less work
TurnsLeaveLess ==
    \A r \in Readers :
        (run[r].at = "running" /\ run'[r] # run[r]) =>
            /\ Work(run'[r]) < Work(run[r])
            /\ Work(run'[r]) >= 0

\* the last call of quicksort ended its partition loop inside its range and
\* short of its right end, so each call it makes is on a shorter range; and
\* every call still to be made is on a range of the leaves
QuicksortShrinks ==
    sort # NoSort =>
        /\ sort.last # << >> =>
              /\ sort.last[1] <= sort.last[3]
              /\ sort.last[3] < sort.last[2]
        /\ \A n \in 1..Len(sort.stack) :
              /\ 0 <= sort.stack[n][1]
              /\ sort.stack[n][1] < sort.stack[n][2]
              /\ sort.stack[n][2] < num_items

\* the calls of quicksort a build has left at most: a call on m leaves
\* makes fewer than 2 * m calls
RECURSIVE SortWork(_)
SortWork(stack) ==
    IF stack = << >> THEN 0
    ELSE 2 * (Head(stack)[2] - Head(stack)[1] + 1) - 1 + SortWork(Tail(stack))

\* every call of quicksort leaves fewer calls to be made
SortLeavesLess ==
    (sort # NoSort /\ sort' # NoSort /\ sort' # sort) =>
        SortWork(sort'.stack) < SortWork(sort.stack)

\* the build followed call by call has left what build leaves, with the
\* Hilbert values in order
BuiltAsExpected ==
    (pc = "ready" /\ call.op = "build" /\ "expect" \in DOMAIN call) =>
        /\ [b |-> boxes, i |-> indices] \in call.expect
        /\ \A n \in 1..(Len(call.hv) - 1) :
              ~HilbertLess(call.hv[n + 1], call.hv[n])

C28_WitnessHeap ==
    /\ run[1].at = "done"
    /\ run[1].kind = "query_nearest_k"
    /\ num_items > node_size

=============================================================================
